---- MODULE Spec2Model ----
(***************************************************************************)
(* A model of the parallel lowering pass, compiler/passes/parallel.cpp.    *)
(*                                                                         *)
(* The pass is single threaded.  Each sub-pass is modelled as its own      *)
(* specification over an abstract IR; the variables of the sub-passes a    *)
(* specification does not exercise keep their initial value.               *)
(*                                                                         *)
(*   Spec      the task-argument bundler, passArgsToNestedFns              *)
(*   SpecHeap  the promotion rewrite of makeHeapAllocations                *)
(*   SpecFree  freeHeapAllocatedVars                                       *)
(*   SpecGlobals  the globals: findHeapVarsAndRefs to insertWideReferences *)
(*   SpecWide  the wide types of insertWideReferences and of codegen       *)
(*   SpecLocal handleLocalBlocks                                           *)
(*   SpecEnd   insertEndCounts                                             *)
(*   SpecActuals  the bundler, with actuals not of the formals' types      *)
(*   SpecTwice insertWideReferences run twice                              *)
(***************************************************************************)
EXTENDS Integers, Sequences, FiniteSets, TLC

(***************************************************************************)
(* Bounds of the model.                                                    *)
(***************************************************************************)
\* the largest number of formals of the task function
MaxFormals == 2
\* the largest number of call sites of the task function
MaxCalls == 2

(***************************************************************************)
(* Symbols, types and statements of the abstract IR.                       *)
(***************************************************************************)
Sym(k, a, b) == [k |-> k, a |-> a, b |-> b]
\* formal i of the task function
Formal(i) == Sym("formal", i, 0)
\* actual i of call site c
Actual(c, i) == Sym("actual", c, i)
\* field i of the bundle class
Field(i) == Sym("field", i, 0)

\* A type is a value type plus whether the symbol is a reference to it;
\* id tells the synthesized classes apart.  "plain" stands for primitive and
\* class types.
ValKinds == {"plain", "record", "recordNoAutoCopy", "refcounted"}
Ty(v, r) == [val |-> v, ref |-> r, id |-> 0]
Types == {Ty(v, r) : v \in ValKinds, r \in BOOLEAN}

Stmt(op, args) == [op |-> op, args |-> args]

RECURSIVE SeqSum(_)
SeqSum(s) == IF s = <<>> THEN 0 ELSE Head(s) + SeqSum(Tail(s))

RECURSIVE Flatten(_)
Flatten(ss) == IF ss = <<>> THEN <<>> ELSE Head(ss) \o Flatten(Tail(ss))

Range(s) == {s[i] : i \in DOMAIN s}

\* the position of the first statement with operation op (0 when none)
FirstPos(s, op) ==
  IF \E i \in DOMAIN s : s[i].op = op
  THEN CHOOSE i \in DOMAIN s : s[i].op = op /\ \A j \in 1..(i-1) : s[j].op # op
  ELSE 0

VARIABLES
  \* ---- the task-argument bundler
  fnFlags,      \* flags of the task function fn
  origFormals,  \* types of fn's formals before the pass
  fnFormals,    \* fn->formals: <<[sym, type]>>
  fnBody,       \* fn->body: statements
  calledBy,     \* fn->calledBy: call site -> [actuals, pre, fcall, post]
  processed,    \* the call sites bundleArgs has been run on
  baData,       \* the BundleArgsFnData of fn
  modTypes,     \* the bundle classes inserted into the module block
  modFns,       \* the wrapper functions inserted into the module block
  pc,           \* position of passArgsToNestedFns
  aborted,      \* an INT_ASSERT failed
  \* ---- the promotion rewrite of makeHeapAllocations
  hIR,          \* the statements of the function (or module init) rewritten
  hType,        \* symbol -> its declared type
  hInfo,        \* symbol -> where it is declared, and its flags
  varVec,       \* the variables to put on the heap, a worklist
  varIdx,       \* the position of the promotion loop in varVec
  defMap,       \* symbol -> the SymExprs that define it
  useMap,       \* symbol -> the SymExprs that use it
  heapAllocatedVars, \* the locals given a heap cell
  heapTypeMap,  \* the value types that have a heap class
  hTmp,         \* the number of temporaries made so far
  requireWideReferences, \* the runtime configuration
  hpc,          \* position of makeHeapAllocations
  hAborted,     \* an INT_ASSERT or INT_FATAL was hit
  \* ---- freeHeapAllocatedVars
  fIR,          \* the statements of the function that name the variables
  taskFlags,    \* the flags of the function f_task
  fnsContainingTaskll, \* the functions that may start a task
  varsToTrack,  \* the variables the heap variable may flow to, a worklist
  trackIdx,     \* the position of the tracking loop in varsToTrack
  freeVar,      \* no tracked variable is passed to a task so far
  frees,        \* the calls of here_free inserted
  fpc,          \* position of freeHeapAllocatedVars
  \* ---- the globals, and insertWideReferences
  fLocal,       \* the program is compiled for a single locale
  commFullSegment, \* the communication layer registers the full memory
  gDefExprs,    \* the DefExprs of the program besides those of the globals
  haFns,        \* the bodies of the functions chpl__heapAllocateGlobals
  numGlobalsOnHeap, \* the global of that name
  wideClassMap, \* class type -> its wide class
  wideRefMap,   \* reference type -> its wide reference
  wideTypes,    \* the wide types made, in order
  gHeapVars,    \* the Vec heapVars of insertWideReferences
  wCalls,       \* the calls of getOrMakeWideTypeDuringCodegen so far
  wRet,         \* the argument and the result of the last of them
  wAborted,     \* an internal error stopped insertWideReferences
  wpc,          \* position of insertWideReferences
  \* ---- handleLocalBlocks
  lFns,         \* the functions: name, flags, return type, body
  lBlocks,      \* the bodies of the local blocks
  lType,        \* the types of the symbols
  lQueue,       \* the queue of blocks to localize
  lIdx,         \* the position of the loop in the queue
  lCache,       \* the cache of localized functions
  fNoLocalChecks, \* no local_check is to be inserted
  lpc,          \* position of handleLocalBlocks
  \* ---- insertEndCounts
  eFns,         \* the functions: formals, and the statements at the head
  eCalls,       \* the resolved calls: caller, callee, actuals
  ePrims,       \* the get_end_count and set_end_count calls, per function
  eType,        \* the types of the end-count symbols
  endCountMap,  \* function -> its end-count variable
  eQueue,       \* the queue of functions given an end count
  eIdx,         \* the position of the loop in the queue
  epc,          \* position of insertEndCounts
  \* ---- the closure loop of makeHeapAllocations
  cFlags,       \* the flags of the task function
  cNeedHeapVars, \* needHeapVars()
  cCoforall,    \* the symbols flagged as coforall index variables
  cDefMap,      \* reference variable -> its definitions, in order
  cCalledBy,    \* the calls of the task function: the actual of its formal
  refSet,       \* the symbols whose referencees go to the heap
  refVec,       \* the same, as the worklist
  varSet,       \* the symbols that go to the heap themselves
  closureVarVec, \* the same, in order: the varVec of makeHeapAllocations
  cIdx,         \* the position of the loop in refVec
  cpc,          \* position of makeHeapAllocations
  cAborted      \* an INT_ASSERT or INT_FATAL was hit

bundleVars == <<fnFlags, origFormals, fnFormals, fnBody, calledBy, processed,
                baData, modTypes, modFns, pc, aborted>>

heapVars == <<hIR, hType, hInfo, varVec, varIdx, defMap, useMap,
              heapAllocatedVars, heapTypeMap, hTmp, requireWideReferences,
              hpc, hAborted>>

freeState == <<fIR, taskFlags, fnsContainingTaskll, varsToTrack, trackIdx,
               freeVar, frees, fpc>>

wideState == <<fLocal, commFullSegment, gDefExprs, haFns, numGlobalsOnHeap,
               wideClassMap, wideRefMap, wideTypes, gHeapVars, wCalls, wRet,
               wAborted, wpc>>

localState == <<lFns, lBlocks, lType, lQueue, lIdx, lCache, fNoLocalChecks,
                lpc>>

\* the state of the sub-passes modelled after those of the module-level
\* variables
endState == <<eFns, eCalls, ePrims, eType, endCountMap, eQueue, eIdx, epc>>

closureState == <<cFlags, cNeedHeapVars, cCoforall, cDefMap, cCalledBy, refSet,
                  refVec, varSet, closureVarVec, cIdx, cpc, cAborted>>

laterState == <<localState, endState, closureState>>

\* the state of the sub-passes modelled after the three above
restState == <<wideState, laterState>>

vars == <<bundleVars, heapVars, freeState, restState>>

(***************************************************************************)
(* The task-argument bundler.                                              *)
(***************************************************************************)

\* the flag combinations of a task function
TaskKinds == { {"begin"}, {"cobegin_or_coforall"}, {"on"},
               {"on", "non_blocking"}, {"on", "begin"} }

\* The first formal of an 'on' function is the locale argument, a (wide)
\* locale pointer.
LocaleTy == Ty("plain", FALSE)

\* the type of an instance of bundle class number id of the module
ClassTy(id) == [val |-> "_class_locals", ref |-> FALSE, id |-> id]

\* the symbol of the call site's bundle instance, _args_for<fn>
Tempc(c) == Sym("_args_for", c, 0)
\* the wrapper's formal c
WrapC == Sym("c", 0, 0)
\* wrapper function number id of the module, as the callee of a call
WrapFn(id) == Sym("wrap", id, 0)

bundleArgsFnDataInit == [firstCall |-> TRUE, ctype |-> 0, wrap_fn |-> 0]

isRefCountedType(v) == v = "refcounted"
isRecord(v) == v \in {"record", "recordNoAutoCopy"}
\* getAutoCopy returns NULL for records without an autoCopy function
hasAutoCopy(v) == v # "recordNoAutoCopy"

\* a mutant: every 'on' function counts as asynchronous
isAsyncTaskFn_anyOn(flags) == "begin" \in flags \/ "on" \in flags

\* whether the autoCopy/autoDestroy rules apply to calls of the function
isAsyncTaskFn(flags) ==
  "begin" \in flags \/ ("on" \in flags /\ "non_blocking" \in flags)

\* a mutant: the fields are laid out from the last actual to the first
create_arg_bundle_class_reversed(actuals) ==
  [name |-> "_class_locals",
   flags |-> {"no_object", "no_wide_class"},
   fields |-> [i \in DOMAIN actuals |->
                 actuals[Len(actuals) + 1 - i].type]]

\* create_arg_bundle_class: one field per actual of fcall, of the actual's type
create_arg_bundle_class(actuals) ==
  [name |-> "_class_locals",
   flags |-> {"no_object", "no_wide_class"},
   fields |-> [i \in DOMAIN actuals |-> actuals[i].type]]

\* a mutant: the auto-destroy is inserted at every call site
destroyAtEveryCall(firstCall) == TRUE

\* whether this call site inserts the auto-destroy into fn: only the first
destroyInsertedAt(firstCall) == firstCall

\* insertAutoCopyDestroyForTaskArg for actual i of call site c:
\*   var    the symbol stored into the bundle field
\*   before the statements inserted before fcall
\*   inFn   the statements inserted into fn before its _downEndCount
insertAutoCopyDestroyForTaskArg(c, i, arg, flags, firstCall) ==
  LET derefTmp == Sym("derefTmp", c, i)
      valTmp == Sym("valTmp", c, i)
      fnDerefTmp == Sym("fnDerefTmp", i, 0)
      keep == [var |-> arg.sym, before |-> <<>>, inFn |-> <<>>]
  IN
  IF ~isAsyncTaskFn(flags) THEN keep
  ELSE IF isRefCountedType(arg.type.val) THEN
    [var |-> IF arg.type.ref THEN arg.sym ELSE valTmp,
     before |->
       IF arg.type.ref
       THEN << Stmt("def", <<derefTmp>>),
               Stmt("move_deref", <<derefTmp, arg.sym>>),
               Stmt("autoCopy", <<derefTmp>>) >>
       ELSE << Stmt("def", <<valTmp>>),
               Stmt("move_autoCopy", <<valTmp, arg.sym>>) >>,
     inFn |->
       IF ~destroyInsertedAt(firstCall) THEN <<>>
       ELSE IF arg.type.ref
       THEN << Stmt("def", <<fnDerefTmp>>),
               Stmt("move_deref", <<fnDerefTmp, Formal(i)>>),
               Stmt("autoDestroy", <<fnDerefTmp>>) >>
       ELSE << Stmt("autoDestroy", <<Formal(i)>>) >>]
  ELSE IF isRecord(arg.type.val) /\ ~arg.type.ref THEN
    IF ~hasAutoCopy(arg.type.val) THEN keep
    ELSE [var |-> valTmp,
          before |-> << Stmt("def", <<valTmp>>),
                        Stmt("move_autoCopy", <<valTmp, arg.sym>>) >>,
          inFn |-> IF destroyInsertedAt(firstCall)
                   THEN << Stmt("autoDestroy", <<Formal(i)>>) >>
                   ELSE <<>>]
  ELSE keep

\* fn->insertBeforeDownEndCount(stmts)
insertBeforeDownEndCount(body, stmts) ==
  LET p == FirstPos(body, "_downEndCount")
  IN SubSeq(body, 1, p - 1) \o stmts \o SubSeq(body, p, Len(body))

\* a mutant: the wrapper of an 'on' function gets no locale formal
wrapperFormals_noLocale(flags, formals, ctype) ==
  <<[sym |-> WrapC, type |-> ClassTy(ctype)]>>

\* the formals of the wrapper: for an 'on' function a copy of fn's first
\* formal, then c of the bundle class
wrapperFormals(flags, formals, ctype) ==
  (IF "on" \in flags
   THEN <<[sym |-> Sym("copyOf", formals[1].sym.a, 0),
           type |-> formals[1].type]>>
   ELSE <<>>)
  \o <<[sym |-> WrapC, type |-> ClassTy(ctype)]>>

\* a mutant: every wrapper frees its bundle
wrapperAlwaysFrees(flags) == TRUE

\* whether the wrapper frees its bundle after the call of fn
wrapperFreesBundle(flags) == "on" \notin flags

\* create_block_fn_wrapper: the wrapper function built on the first call
create_block_fn_wrapper(flags, formals, ctype, fields) ==
  LET tmp(i) == Sym("wrapTmp", i, 0)
      n == Len(fields)
  IN
  [name |-> "wrap",
   flags |-> {f \in {"on_block", "non_blocking", "cobegin_or_coforall_block",
                     "begin_block"} :
                \/ f = "on_block" /\ "on" \in flags
                \/ f = "non_blocking" /\ "non_blocking" \in flags
                \/ f = "cobegin_or_coforall_block"
                     /\ "cobegin_or_coforall" \in flags
                \/ f = "begin_block" /\ "begin" \in flags},
   formals |-> wrapperFormals(flags, formals, ctype),
   body |->
     Flatten([i \in 1..n |->
                << Stmt("def", <<tmp(i)>>),
                   Stmt("move_get_member_value", <<tmp(i), WrapC, Field(i)>>) >>])
     \o << Stmt("call_fn",
                [j \in 1..(IF "on" \in flags THEN n - 1 ELSE n) |->
                   tmp(IF "on" \in flags THEN j + 1 ELSE j)]) >>
     \o (IF wrapperFreesBundle(flags) THEN << Stmt("here_free", <<WrapC>>) >>
         ELSE <<>>)
     \o << Stmt("return", <<>>) >>]

\* a mutant: the locale actual is not passed on
wrapperCallActuals_noLocale(flags, fcall, c) == <<Tempc(c)>>

\* the actuals of the call of the wrapper; for an 'on' function the first
\* actual of fcall is moved over
wrapperCallActuals(flags, fcall, c) ==
  IF "on" \in flags THEN <<fcall[1].sym, Tempc(c)>> ELSE <<Tempc(c)>>

\* a mutant: the statements go to the head of the block
insertAtHead(pre, stmts) == stmts \o pre

\* fcall->insertBefore(stmt), given the statements before fcall
insertBefore(pre, stmts) == pre \o stmts

\* call_block_fn_wrapper: the call site after the call of the wrapper has
\* been inserted and the original call removed
call_block_fn_wrapper(flags, site, c, wrap_fn) ==
  [site EXCEPT
     !.pre = insertBefore(@, << Stmt("call_wrap",
                                     <<WrapFn(wrap_fn)>>
                                     \o wrapperCallActuals(flags, site.fcall, c)) >>),
     !.post = (IF "on" \in flags THEN << Stmt("here_free", <<Tempc(c)>>) >>
               ELSE <<>>) \o @,
     !.fcall = <<>>,
     !.removed = TRUE]

\* a mutant: firstCall is never cleared
firstCallNotCleared == TRUE

\* the value of baData.firstCall after bundleArgs
firstCallAfterBundleArgs == FALSE

\* bundleArgs(fcall, baData) for call site c
bundleArgs(c) ==
  LET site == calledBy[c]
      firstCall == baData.firstCall
      \* INT_ASSERT(!baData.ctype) in create_arg_bundle_class
      assert1 == firstCall => baData.ctype = 0
      types1 == IF firstCall
                THEN Append(modTypes, create_arg_bundle_class(site.fcall))
                ELSE modTypes
      ctype == IF firstCall THEN Len(types1) ELSE baData.ctype
      n == Len(site.fcall)
      ac(i) == insertAutoCopyDestroyForTaskArg(c, i, site.fcall[i], fnFlags,
                                               firstCall)
      filled ==
        << Stmt("def", <<Tempc(c)>>), Stmt("here_alloc", <<Tempc(c)>>) >>
        \o Flatten([i \in 1..n |->
                      ac(i).before
                      \o << Stmt("set_member",
                                 <<Tempc(c), Field(i), ac(i).var>>) >>])
      body1 == insertBeforeDownEndCount(
                 fnBody, Flatten([i \in 1..n |-> ac(i).inFn]))
      \* INT_ASSERT(baData.firstCall == !baData.wrap_fn)
      assert2 == firstCall = (baData.wrap_fn = 0)
      fns1 == IF firstCall
              THEN Append(modFns,
                          create_block_fn_wrapper(fnFlags, fnFormals, ctype,
                                                  types1[ctype].fields))
              ELSE modFns
      wrap_fn == IF firstCall THEN Len(fns1) ELSE baData.wrap_fn
  IN
  /\ pc = "bundling"
  /\ ~aborted
  /\ c \in DOMAIN calledBy
  /\ c \notin processed
  /\ IF ~assert1 \/ ~assert2
     THEN /\ aborted' = TRUE
          /\ UNCHANGED <<fnFlags, origFormals, fnFormals, fnBody, calledBy,
                         processed, baData, modTypes, modFns, pc, heapVars,
                         freeState, restState>>
     ELSE /\ modTypes' = types1
          /\ modFns' = fns1
          /\ fnBody' = body1
          /\ calledBy' =
               [calledBy EXCEPT
                  ![c] = call_block_fn_wrapper(
                           fnFlags,
                           [site EXCEPT !.pre = insertBefore(@, filled),
                                        !.tempcType = ClassTy(ctype)],
                           c, wrap_fn)]
          /\ baData' = [firstCall |-> firstCallAfterBundleArgs,
                        ctype |-> ctype, wrap_fn |-> wrap_fn]
          /\ processed' = processed \cup {c}
          /\ UNCHANGED <<fnFlags, origFormals, fnFormals, pc, aborted,
                         heapVars, freeState, restState>>

\* whether statement s references the symbol sym
Mentions(s, sym) == \E k \in DOMAIN s.args : s.args[k] = sym

\* a mutant: the references to the locale formal stay
keepLocaleArgUses(body) == body

\* the body of fn once every statement that references the locale formal
\* has been removed
removeLocaleArgUses(body) ==
  LET Keep(s) == ~Mentions(s, Formal(1)) IN SelectSeq(body, Keep)

\* the end of passArgsToNestedFns for fn: once every call site is done, the
\* dummy locale formal of an 'on' function is removed with its references
removeLocaleArg ==
  /\ pc = "bundling"
  /\ ~aborted
  /\ processed = DOMAIN calledBy
  /\ IF "on" \in fnFlags
     THEN /\ fnBody' = removeLocaleArgUses(fnBody)
          /\ fnFormals' = Tail(fnFormals)
     ELSE UNCHANGED <<fnBody, fnFormals>>
  /\ pc' = "done"
  /\ UNCHANGED <<fnFlags, origFormals, calledBy, processed, baData, modTypes,
                 modFns, aborted, heapVars, freeState,
                 restState>>

\* the body of fn before the pass: a use of each formal, then the end-count
\* decrement and the return
InitBody(n, refsLocale) ==
  LET Keep(s) == refsLocale \/ ~Mentions(s, Formal(1))
  IN SelectSeq([i \in 1..n |-> Stmt("use", <<Formal(i)>>)], Keep)
     \o << Stmt("_downEndCount", <<>>), Stmt("return", <<>>) >>

\* the call sites of fn in the resolved IR: each passes one symbol per
\* formal, of the formal's type
InitCalls(formals, ncalls) ==
  [c \in 1..ncalls |->
     [fcall |-> [i \in DOMAIN formals |->
                   [sym |-> Actual(c, i), type |-> formals[i]]],
      pre |-> <<>>, post |-> <<>>, removed |-> FALSE,
      tempcType |-> Ty("plain", FALSE)]]

\* the state of the sub-passes a specification does not exercise
HeapIdle ==
  /\ hIR = <<>>
  /\ hType = <<>>
  /\ hInfo = <<>>
  /\ varVec = <<>>
  /\ varIdx = 1
  /\ defMap = <<>>
  /\ useMap = <<>>
  /\ heapAllocatedVars = <<>>
  /\ heapTypeMap = {}
  /\ hTmp = 0
  /\ requireWideReferences = FALSE
  /\ hpc = "idle"
  /\ hAborted = FALSE

FreeIdle ==
  /\ fIR = <<>>
  /\ taskFlags = {}
  /\ fnsContainingTaskll = <<>>
  /\ varsToTrack = <<>>
  /\ trackIdx = 1
  /\ freeVar = TRUE
  /\ frees = <<>>
  /\ fpc = "idle"

WideIdle ==
  /\ fLocal = FALSE
  /\ commFullSegment = FALSE
  /\ gDefExprs = <<>>
  /\ haFns = <<>>
  /\ numGlobalsOnHeap = 0
  /\ wideClassMap = <<>>
  /\ wideRefMap = <<>>
  /\ wideTypes = <<>>
  /\ gHeapVars = <<>>
  /\ wCalls = 0
  /\ wRet = <<>>
  /\ wAborted = FALSE
  /\ wpc = "idle"

LocalIdle ==
  /\ lFns = <<>>
  /\ lBlocks = <<>>
  /\ lType = <<>>
  /\ lQueue = <<>>
  /\ lIdx = 1
  /\ lCache = <<>>
  /\ fNoLocalChecks = FALSE
  /\ lpc = "idle"

EndIdle ==
  /\ eFns = <<>>
  /\ eCalls = <<>>
  /\ ePrims = <<>>
  /\ eType = <<>>
  /\ endCountMap = <<>>
  /\ eQueue = <<>>
  /\ eIdx = 1
  /\ epc = "idle"

ClosureIdle ==
  /\ cFlags = {}
  /\ cNeedHeapVars = FALSE
  /\ cCoforall = {}
  /\ cDefMap = <<>>
  /\ cCalledBy = <<>>
  /\ refSet = {}
  /\ refVec = <<>>
  /\ varSet = {}
  /\ closureVarVec = <<>>
  /\ cIdx = 1
  /\ cpc = "idle"
  /\ cAborted = FALSE

LaterIdle == LocalIdle /\ EndIdle /\ ClosureIdle

RestIdle == WideIdle /\ LaterIdle

BundleInit ==
  /\ fnFlags \in TaskKinds
  /\ \E n \in 0..MaxFormals :
       /\ "on" \in fnFlags => n >= 1
       /\ origFormals \in [1..n -> Types]
  /\ "on" \in fnFlags => origFormals[1] = LocaleTy
  /\ fnFormals = [i \in DOMAIN origFormals |->
                    [sym |-> Formal(i), type |-> origFormals[i]]]
  /\ \E refsLocale \in BOOLEAN :
       /\ "on" \notin fnFlags => refsLocale
       /\ fnBody = InitBody(Len(origFormals), refsLocale)
  /\ \E ncalls \in 1..MaxCalls : calledBy = InitCalls(origFormals, ncalls)
  /\ processed = {}
  /\ baData = bundleArgsFnDataInit
  /\ modTypes = <<>>
  /\ modFns = <<>>
  /\ pc = "bundling"
  /\ aborted = FALSE

Init == BundleInit /\ HeapIdle /\ FreeIdle /\ RestIdle

Next ==
  \/ \E c \in 1..MaxCalls : bundleArgs(c)
  \/ removeLocaleArg

Spec == Init /\ [][Next]_vars

(***************************************************************************)
(* Properties of the task-argument bundler.                                *)
(***************************************************************************)

\* the statements of call site c, in order (the original call, while it is
\* there, sits between pre and post)
SiteStmts(c) == calledBy[c].pre \o calledBy[c].post

\* the positions in s of the statements with operation op
Positions(s, op) == {k \in DOMAIN s : s[k].op = op}

CountOp(s, op) == Cardinality(Positions(s, op))

\* the number of direct calls of fn in the program: the original calls not
\* yet removed and the calls in wrapper bodies
DirectCalls ==
  Cardinality({c \in DOMAIN calledBy : ~calledBy[c].removed})
  + SeqSum([w \in DOMAIN modFns |-> CountOp(modFns[w].body, "call_fn")])

\* C1: after argument bundling every call site of the task function has been
\* removed and replaced in place by exactly one call of the wrapper, whose
\* actuals are the bundle instance, preceded by the locale actual when the
\* function is flagged 'on'; the only direct call of the task function left
\* is the one in its wrapper.
C1_CallSitesReplaced ==
  /\ \A c \in processed :
       LET s == SiteStmts(c)
           pre == calledBy[c].pre
       IN /\ calledBy[c].removed
          /\ calledBy[c].fcall = <<>>
          /\ CountOp(s, "call_wrap") = 1
          /\ CountOp(s, "call_fn") = 0
          /\ pre # <<>>
          /\ pre[Len(pre)].op = "call_wrap"
          /\ Tail(pre[Len(pre)].args) =
               (IF "on" \in fnFlags THEN <<Actual(c, 1), Tempc(c)>>
                ELSE <<Tempc(c)>>)
          /\ calledBy[c].tempcType = ClassTy(baData.ctype)
  /\ pc = "done" =>
       /\ processed = DOMAIN calledBy
       /\ DirectCalls = 1
       /\ CountOp(fnBody, "call_fn") = 0

C1_Witness ==
  /\ pc = "done"
  /\ "on" \in fnFlags
  /\ Cardinality(processed) = MaxCalls
  /\ Len(origFormals) = MaxFormals

\* C2 as stated: after bundling, the task function has exactly one formal,
\* and its type is the bundle class synthesized for it.
C2_AsStated ==
  pc = "done" =>
    /\ Len(fnFormals) = 1
    /\ fnFormals[1].type = ClassTy(baData.ctype)

\* C2 as amended: after bundling, it is the wrapper of the task function
\* that has exactly one formal of the bundle class synthesized for the
\* function (after a copy of the locale formal when the function is 'on');
\* the task function keeps its own formals, an 'on' function all but the
\* first, and the wrapper's call passes one actual for each of them.
C2_WrapperTakesBundle ==
  pc = "done" =>
    /\ Len(modFns) = 1
    /\ LET w == modFns[1]
           k == IF "on" \in fnFlags THEN 1 ELSE 0
       IN /\ Len(w.formals) = k + 1
          /\ w.formals[k + 1] = [sym |-> WrapC, type |-> ClassTy(baData.ctype)]
          /\ k = 1 => w.formals[1] = [sym |-> Sym("copyOf", 1, 0),
                                      type |-> origFormals[1]]
          /\ Len(fnFormals) = Len(origFormals) - k
          /\ \A i \in DOMAIN fnFormals :
               fnFormals[i] = [sym |-> Formal(i + k),
                               type |-> origFormals[i + k]]
          /\ \A p \in Positions(w.body, "call_fn") :
               Len(w.body[p].args) = Len(fnFormals)

C2_Witness ==
  /\ pc = "done"
  /\ "on" \in fnFlags
  /\ Len(fnFormals) = MaxFormals - 1

RecordOrRefCountedFormals ==
  {i \in DOMAIN origFormals :
     \/ origFormals[i].val = "refcounted"
     \/ origFormals[i].val \in {"record", "recordNoAutoCopy"}
          /\ ~origFormals[i].ref}

NeedsAutoDestroy ==
  {i \in DOMAIN origFormals :
     \/ origFormals[i].val = "refcounted"
     \/ origFormals[i].val = "record" /\ ~origFormals[i].ref}

C5_BundleFreedOnce ==
  \A c \in processed :
    LET s == SiteStmts(c)
        w == modFns[baData.wrap_fn].body
        siteFrees == {k \in Positions(s, "here_free") : s[k].args = <<Tempc(c)>>}
        wrapFrees == {k \in Positions(w, "here_free") : w[k].args = <<WrapC>>}
    IN /\ Cardinality({k \in Positions(s, "here_alloc") :
                         s[k].args = <<Tempc(c)>>}) = 1
       /\ Cardinality(siteFrees) + Cardinality(wrapFrees) = 1
       /\ "on" \in fnFlags =>
            /\ wrapFrees = {}
            /\ \A k \in siteFrees : \A q \in Positions(s, "call_wrap") : q < k
       /\ "on" \notin fnFlags =>
            /\ siteFrees = {}
            /\ \A k \in wrapFrees : \A q \in Positions(w, "call_fn") : q < k

C5_Witness ==
  /\ pc = "done"
  /\ "on" \in fnFlags
  /\ Cardinality(processed) = MaxCalls

\* the symbols that belong to actual i of call site c
ActualSyms(c, i) ==
  {Actual(c, i), Sym("derefTmp", c, i), Sym("valTmp", c, i)}

\* C6: at every rewritten call site the statements come in the order: the
\* definition of the bundle variable, its allocation, then for each actual
\* in order its auto-copy statements followed by the set_member of its
\* field, and after all of them the call of the wrapper; no field of the
\* bundle is written after that call.
C6_FillBeforeSpawn ==
  \A c \in processed :
    LET s == SiteStmts(c)
        n == Len(origFormals)
        setPos(i) == {k \in Positions(s, "set_member") :
                        s[k].args[1] = Tempc(c) /\ s[k].args[2] = Field(i)}
        at(i) == IF i = 0 THEN 2 ELSE CHOOSE k \in setPos(i) : TRUE
    IN /\ Len(s) >= 3
       /\ s[1] = Stmt("def", <<Tempc(c)>>)
       /\ s[2] = Stmt("here_alloc", <<Tempc(c)>>)
       /\ Cardinality(Positions(s, "set_member")) = n
       /\ \A i \in 1..n :
            /\ Cardinality(setPos(i)) = 1
            /\ at(i - 1) < at(i)
            /\ s[at(i)].args[3] \in ActualSyms(c, i)
            /\ \A k \in (at(i - 1) + 1)..(at(i) - 1) :
                 /\ s[k].op \in {"def", "move_deref", "autoCopy",
                                 "move_autoCopy"}
                 /\ \A a \in Range(s[k].args) : a \in ActualSyms(c, i)
       /\ Positions(s, "call_wrap") = {at(n) + 1}

C6_Witness ==
  /\ pc = "done"
  /\ Len(origFormals) = MaxFormals
  /\ "begin" \in fnFlags
  /\ \A i \in DOMAIN origFormals : origFormals[i] = Ty("refcounted", i = 1)

\* whether the locale formal of fn has been removed
LocaleArgRemoved ==
  \A i \in DOMAIN fnFormals : fnFormals[i].sym # Formal(1)

NoSym == Sym("", 0, 0)
\* the variables of the function: v and w are candidates for promotion
V == Sym("v", 0, 0)
W == Sym("w", 0, 0)
\* a local of the value type, a local reference, a local object
X == Sym("x", 0, 0)
R == Sym("r", 0, 0)
O == Sym("o", 0, 0)
\* the n-th temporary made by newTemp
HTmp(n) == Sym("tmp", n, 0)

SymE(sym, id) == [op |-> "sym", fn |-> "", sym |-> sym, id |-> id, args |-> <<>>]
Prim(op, args) == [op |-> op, fn |-> "", sym |-> NoSym, id |-> 0, args |-> args]
Call(fn, args) == [op |-> "call", fn |-> fn, sym |-> NoSym, id |-> 0, args |-> args]
DefE(sym) == [op |-> "def", fn |-> "", sym |-> sym, id |-> 0, args |-> <<>>]
FieldE(name) == [op |-> "field", fn |-> name, sym |-> NoSym, id |-> 0, args |-> <<>>]
\* a conditional statement on a symbol: a parent that is no CallExpr
CondE(n) == [op |-> "cond", fn |-> "", sym |-> NoSym, id |-> 0, args |-> <<n>>]

\* the types over one value type T: T, ref(T) and heap(T)
ValT == [form |-> "val", of |-> "T"]
refType(t) == [form |-> "ref", of |-> t.of]
\* buildHeapType: the one-field class heap_<T>, field 'value' of type T
buildHeapType(t) == [form |-> "heap", of |-> t.of]

\* the resolved functions the statements call: flags, the intent and the
\* type of the formal
FnFlags(fn) ==
  CASE fn = "autoDestroy" -> {"auto_destroy_fn"}
    [] fn = "autoDestroySync" -> {"auto_destroy_fn_sync"}
    [] OTHER -> {}
FnIntent(fn) ==
  CASE fn = "f_ref" -> "ref"
    [] fn = "f_out" -> "out"
    [] fn = "autoDestroy" -> "out"
    [] OTHER -> "in"
FnFormalType(fn) == IF fn = "f_ref" THEN refType(ValT) ELSE ValT

\* statement k of the input, by form, on promotion candidate p; the ids of
\* its SymExprs are 2k-1 and 2k
StmtForm(form, p, k) ==
  LET a == 2 * k - 1
      b == 2 * k
  IN CASE form = "move_def" -> Prim("move", <<SymE(p, a), SymE(X, b)>>)
       [] form = "move_use" -> Prim("move", <<SymE(X, a), SymE(p, b)>>)
       [] form = "addr_of" ->
            Prim("move", <<SymE(R, a), Prim("addr_of", <<SymE(p, b)>>)>>)
       [] form = "get_member_value" ->
            Prim("move", <<SymE(X, a),
                           Prim("get_member_value", <<SymE(p, b), FieldE("fld")>>)>>)
       [] form = "set_member_base" ->
            Prim("set_member", <<SymE(p, a), FieldE("fld"), SymE(X, b)>>)
       [] form = "set_member_value" ->
            Prim("set_member", <<SymE(O, a), FieldE("fld"), SymE(p, b)>>)
       [] form = "call_in" -> Call("f_in", <<SymE(p, a)>>)
       [] form = "call_ref" -> Call("f_ref", <<SymE(p, a)>>)
       [] form = "call_out" -> Call("f_out", <<SymE(p, a)>>)
       [] form = "move_call" ->
            Prim("move", <<SymE(X, a), Call("f_in", <<SymE(p, b)>>)>>)
       [] form = "move_self" ->
            Prim("move", <<SymE(p, a), Call("f_in", <<SymE(p, b)>>)>>)
       [] form = "autoDestroy" -> Call("autoDestroy", <<SymE(p, a)>>)
       [] form = "autoDestroySync" -> Call("autoDestroySync", <<SymE(p, a)>>)
       [] form = "assign" -> Prim("assign", <<SymE(p, a), SymE(X, b)>>)
       [] form = "cond" -> CondE(SymE(p, a))
       [] form = "move_v_w" -> Prim("move", <<SymE(V, a), SymE(W, b)>>)
       [] form = "move_w_v" -> Prim("move", <<SymE(W, a), SymE(V, b)>>)

FormsOfV == {"move_def", "move_use", "addr_of", "get_member_value",
             "set_member_base", "set_member_value", "call_in", "call_ref",
             "call_out", "move_call", "move_self", "autoDestroy",
             "autoDestroySync", "assign", "cond"}
FormsOfBoth == {"move_v_w", "move_w_v"}

StmtChoices(k) ==
  {StmtForm(f, V, k) : f \in FormsOfV}
  \cup {StmtForm(f, V, k) : f \in FormsOfBoth}

\* the SymExprs of the IR in program order, each with its parent call and
\* its position among the parent's operands
SymNodes(ir) ==
  Flatten([k \in DOMAIN ir |->
    Flatten([i \in DOMAIN ir[k].args |->
      LET n == ir[k].args[i]
      IN IF n.op = "sym"
         THEN <<[node |-> n, parent |-> ir[k], pos |-> i]>>
         ELSE Flatten([j \in DOMAIN n.args |->
                IF n.args[j].op = "sym"
                THEN <<[node |-> n.args[j], parent |-> n, pos |-> j]>>
                ELSE <<>>])])])

\* isDefAndOrUse: 1 a def, 2 a use, 3 both.  The left-hand side of a move
\* or assign is a def; an actual is a def and a use when passed by ref or
\* inout intent, a def when passed by out intent; anything else is a use.
isDefAndOrUse(e) ==
  IF e.parent.op \in {"move", "assign"} /\ e.pos = 1 THEN 1
  ELSE IF e.parent.op = "call" /\ FnIntent(e.parent.fn) = "ref" THEN 3
  ELSE IF e.parent.op = "call" /\ FnIntent(e.parent.fn) = "out" THEN 1
  ELSE 2

\* buildDefUseMaps, one list of SymExpr ids per symbol
IdsOf(ir, sym, bits) ==
  LET Mine(e) == e.node.sym = sym /\ isDefAndOrUse(e) \in bits
      sel == SelectSeq(SymNodes(ir), Mine)
  IN [q \in DOMAIN sel |-> sel[q].node.id]
buildDefMap(ir, syms) == [y \in syms |-> IdsOf(ir, y, {1, 3})]
buildUseMap(ir, syms) == [y \in syms |-> IdsOf(ir, y, {2, 3})]

\* where the SymExpr with this id is in the tree: statement k, operand i
\* and, inside a nested call, its operand j; k = 0 when it is in no tree
Loc(ir, id) ==
  LET d1 == {t \in (DOMAIN ir) \X (1..3) :
               /\ t[2] \in DOMAIN ir[t[1]].args
               /\ ir[t[1]].args[t[2]].op = "sym"
               /\ ir[t[1]].args[t[2]].id = id}
      d2 == {t \in (DOMAIN ir) \X (1..3) \X (1..3) :
               /\ t[2] \in DOMAIN ir[t[1]].args
               /\ t[3] \in DOMAIN ir[t[1]].args[t[2]].args
               /\ ir[t[1]].args[t[2]].args[t[3]].op = "sym"
               /\ ir[t[1]].args[t[2]].args[t[3]].id = id}
  IN IF d1 # {} THEN LET t == CHOOSE t \in d1 : TRUE
                     IN [k |-> t[1], i |-> t[2], j |-> 0]
     ELSE IF d2 # {} THEN LET t == CHOOSE t \in d2 : TRUE
                          IN [k |-> t[1], i |-> t[2], j |-> t[3]]
     ELSE [k |-> 0, i |-> 0, j |-> 0]

NodeAt(ir, loc) ==
  IF loc.j = 0 THEN ir[loc.k].args[loc.i]
  ELSE ir[loc.k].args[loc.i].args[loc.j]
\* se->parentExpr
ParentAt(ir, loc) == IF loc.j = 0 THEN ir[loc.k] ELSE ir[loc.k].args[loc.i]
\* the position of the SymExpr among its parent's operands
PosAt(loc) == IF loc.j = 0 THEN loc.i ELSE loc.j

\* se->replace(n)
ReplaceNode(ir, loc, n) ==
  IF loc.j = 0 THEN [ir EXCEPT ![loc.k].args[loc.i] = n]
  ELSE [ir EXCEPT ![loc.k].args[loc.i].args[loc.j] = n]
\* call->replace(n) for the parent call of the SymExpr at loc
ReplaceParent(ir, loc, stmts) ==
  IF loc.j = 0
  THEN SubSeq(ir, 1, loc.k - 1) \o stmts \o SubSeq(ir, loc.k + 1, Len(ir))
  ELSE [ir EXCEPT ![loc.k].args[loc.i] = stmts[1]]
\* stmt->insertBefore(stmts) for statement k
InsertBeforeStmt(ir, k, stmts) ==
  SubSeq(ir, 1, k - 1) \o stmts \o SubSeq(ir, k, Len(ir))
\* stmt->insertAfter(stmts) for statement k
InsertAfterStmt(ir, k, stmts) ==
  SubSeq(ir, 1, k) \o stmts \o SubSeq(ir, k + 1, Len(ir))

\* insertChplHereAlloc(..., var, heapType, ...): the statement that stores a
\* new heap cell in var
HereAlloc(var) == Prim("move", <<SymE(var, 0), Prim("here_alloc", <<>>)>>)

\* the temporary and the two statements that load var.value (or a
\* reference to it) before statement k, and the SymExpr put in place
LoadValue(st, loc, prim, type) ==
  LET tmp == HTmp(st.tmp + 1)
      se == NodeAt(st.ir, loc)
  IN [st EXCEPT
        !.ir = InsertBeforeStmt(
                 ReplaceNode(st.ir, loc, SymE(tmp, 0)), loc.k,
                 << DefE(tmp),
                    Prim("move", <<SymE(tmp, 0),
                                   Prim(prim, <<SymE(se.sym, 0),
                                                FieldE("value")>>)>>) >>),
        !.tmp = @ + 1,
        !.types = @ @@ (tmp :> type)]

\* a mutant: a move into the variable is left as it is
rewriteMoveDef_kept(st, loc, type) == st

\* move(var, x) becomes move(tmp, x); set_member(var, value, tmp)
rewriteMoveDef(st, loc, type) ==
  LET tmp == HTmp(st.tmp + 1)
      call == ParentAt(st.ir, loc)
  IN [st EXCEPT
        !.ir = ReplaceParent(
                 st.ir, loc,
                 << DefE(tmp),
                    Prim("move", <<SymE(tmp, 0), call.args[2]>>),
                    Prim("set_member", <<SymE(call.args[1].sym, 0),
                                         FieldE("value"), SymE(tmp, 0)>>) >>),
        !.tmp = @ + 1,
        !.types = @ @@ (tmp :> type)]

\* the body of for_defs(def, defMap, var) for the SymExpr with this id
rewriteDef(st, id, type) ==
  LET loc == Loc(st.ir, id)
      call == ParentAt(st.ir, loc)
  IN IF loc.k = 0 \/ call.op = "cond"
     THEN [st EXCEPT !.aborted = TRUE]      \* INT_FATAL "unexpected case"
     ELSE IF call.op = "move" THEN rewriteMoveDef(st, loc, type)
     ELSE IF call.op = "call" /\ "auto_destroy_fn" \in FnFlags(call.fn)
     THEN [st EXCEPT !.ir = ReplaceParent(@, loc, <<>>)]
     ELSE LoadValue(st, loc, "get_member_value", type)

AccessorPrims == {"get_member", "get_svec_member", "get_member_value",
                  "get_svec_member_value", "wide_get_locale", "wide_get_node",
                  "set_svec_member", "set_member"}

\* the body of for_uses(use, useMap, var) for the SymExpr with this id
rewriteUse(st, id, type) ==
  LET loc == Loc(st.ir, id)
      call == ParentAt(st.ir, loc)
      se == NodeAt(st.ir, loc)
      heapType == buildHeapType(type)
  IN IF loc.k = 0 THEN st                   \* use->parentExpr is NULL
     ELSE IF call.op = "cond"
     THEN [st EXCEPT !.aborted = TRUE]      \* INT_FATAL "unexpected case"
     ELSE IF call.op = "addr_of" THEN
       IF loc.j = 0 \/ st.ir[loc.k].op # "move"
       THEN [st EXCEPT !.aborted = TRUE]    \* INT_ASSERT(move && ...)
       ELSE IF st.types[st.ir[loc.k].args[1].sym] = heapType
       THEN [st EXCEPT !.ir = ReplaceParent(@, loc, <<SymE(se.sym, 0)>>)]
       ELSE [st EXCEPT !.ir = ReplaceParent(
                                @, loc,
                                <<Prim("get_member",
                                       <<SymE(se.sym, 0), FieldE("value")>>)>>)]
     ELSE IF call.op = "call" THEN
       IF "auto_destroy_fn_sync" \in FnFlags(call.fn)
       THEN [st EXCEPT !.ir = ReplaceParent(@, loc, <<>>)]
       ELSE IF FnFormalType(call.fn) = heapType THEN st
       ELSE LoadValue(st, loc, "get_member_value", type)
     ELSE IF call.op \in AccessorPrims /\ PosAt(loc) = 1
     THEN LoadValue(st, loc, "get_member", refType(type))
     ELSE LoadValue(st, loc, "get_member_value", type)

RECURSIVE rewriteDefs(_, _, _)
rewriteDefs(st, ids, type) ==
  IF ids = <<>> \/ st.aborted THEN st
  ELSE rewriteDefs(rewriteDef(st, Head(ids), type), Tail(ids), type)

RECURSIVE rewriteUses(_, _, _)
rewriteUses(st, ids, type) ==
  IF ids = <<>> \/ st.aborted THEN st
  ELSE rewriteUses(rewriteUse(st, Head(ids), type), Tail(ids), type)

\* the statement that is the defPoint of a local
DefPoint(ir, var) ==
  CHOOSE k \in DOMAIN ir : ir[k].op = "def" /\ ir[k].sym = var

\* no SymExpr is retargeted
Retarget_none(ir, ids, tmp) == ir

\* the SymExprs with these ids now name the symbol tmp
Retarget(ir, ids, tmp) ==
  LET re(n) == IF n.op = "sym" /\ n.id \in ids THEN [n EXCEPT !.sym = tmp]
               ELSE n
  IN [k \in DOMAIN ir |->
        [ir[k] EXCEPT
           !.args = [i \in DOMAIN ir[k].args |->
                       LET n == ir[k].args[i]
                       IN IF n.op = "sym" THEN re(n)
                          ELSE [n EXCEPT
                                  !.args = [j \in DOMAIN n.args |->
                                              re(n.args[j])]]]]]

\* the id of the SymExpr made for the first def of the n-th temporary
FirstDefId(n) == 0 - n

\* one iteration of forv_Vec(Symbol, var, varVec): the variable is skipped,
\* or, a formal, replaced by a temporary that joins varVec, or promoted
promoteVar ==
  LET var == varVec[varIdx]
      info == hInfo[var]
      type == hType[var]
      done(vec) == IF varIdx + 1 > Len(vec) THEN "done" ELSE "promote"
  IN
  /\ hpc = "promote"
  /\ ~hAborted
  /\ varIdx <= Len(varVec)
  /\ varIdx' = varIdx + 1
  /\ IF \/ "extern" \in info.flags
        \/ "print_module_init_indent_level" \in info.flags
        \/ info.kind = "global" /\ ~requireWideReferences
     THEN /\ hpc' = done(varVec)
          /\ UNCHANGED <<hIR, hType, hInfo, varVec, defMap, useMap,
                         heapAllocatedVars, heapTypeMap, hTmp, hAborted>>
     ELSE IF info.kind = "formal"
     THEN LET tmp == HTmp(hTmp + 1)
              firstDef == SymE(tmp, FirstDefId(hTmp + 1))
          IN /\ hTmp' = hTmp + 1
             /\ varVec' = Append(varVec, tmp)
             /\ hType' = hType @@ (tmp :> type)
             /\ hInfo' = hInfo @@ (tmp :> [kind |-> "local", flags |-> {}])
             /\ hIR' = << DefE(tmp), Prim("move", <<firstDef, SymE(var, 0)>>) >>
                       \o Retarget(hIR, Range(defMap[var]) \cup Range(useMap[var]),
                                   tmp)
             /\ defMap' = defMap @@ (tmp :> <<firstDef.id>> \o defMap[var])
             /\ useMap' = useMap @@ (tmp :> useMap[var])
             /\ hpc' = done(varVec')
             /\ UNCHANGED <<heapAllocatedVars, heapTypeMap, hAborted>>
     ELSE LET isLocal == info.kind # "global"
              alloc == isLocal /\ (useMap[var] # <<>> \/ defMap[var] # <<>>)
              st0 == [ir |-> IF alloc
                             THEN InsertAfterStmt(hIR, DefPoint(hIR, var),
                                                  <<HereAlloc(var)>>)
                             ELSE hIR,
                      tmp |-> hTmp, types |-> hType, aborted |-> FALSE]
              st1 == rewriteDefs(st0, defMap[var], type)
          IN \E st2 \in {rewriteUses(st1, useMap[var], type)} :
             /\ heapTypeMap' = heapTypeMap \cup {type}
             /\ heapAllocatedVars' = IF alloc THEN Append(heapAllocatedVars, var)
                                     ELSE heapAllocatedVars
             /\ hIR' = st2.ir
             /\ hTmp' = st2.tmp
             /\ hAborted' = st2.aborted
             /\ hType' = IF st2.aborted THEN st2.types
                         ELSE [st2.types EXCEPT ![var] = buildHeapType(type)]
             /\ hpc' = IF st2.aborted THEN hpc ELSE done(varVec)
             /\ UNCHANGED <<hInfo, varVec, defMap, useMap>>
  /\ UNCHANGED <<requireWideReferences, bundleVars, freeState, restState>>

\* the largest number of statements of the function besides the DefExprs
MaxStmts == 2

\* what v is: a local, a formal, or a module-level variable with its flags
KindsOfV ==
  { [kind |-> "local", flags |-> {}],
    [kind |-> "formal", flags |-> {}],
    [kind |-> "global", flags |-> {}],
    [kind |-> "global", flags |-> {"extern"}],
    [kind |-> "global", flags |-> {"print_module_init_indent_level"}] }

BundleIdle ==
  /\ fnFlags = {}
  /\ origFormals = <<>>
  /\ fnFormals = <<>>
  /\ fnBody = <<>>
  /\ calledBy = <<>>
  /\ processed = {}
  /\ baData = bundleArgsFnDataInit
  /\ modTypes = <<>>
  /\ modFns = <<>>
  /\ pc = "idle"
  /\ aborted = FALSE

\* the bodies of n statements
RECURSIVE Bodies(_)
Bodies(n) ==
  IF n = 0 THEN {<<>>}
  ELSE {Append(b, s) : b \in Bodies(n - 1), s \in StmtChoices(n)}

\* the state when the promotion loop starts: the def/use maps are those of
\* the IR, and varVec names v, or v and the local w in either order.  The
\* loop reads requireWideReferences for a module-level variable only.
HeapInit ==
  /\ \E n \in 0..MaxStmts, kv \in KindsOfV :
       /\ hInfo = [y \in {V, W, X, R, O} |->
                     IF y = V THEN kv ELSE [kind |-> "local", flags |-> {}]]
       /\ \E body \in Bodies(n) :
            hIR = (IF kv.kind = "local" THEN <<DefE(V)>> ELSE <<>>)
                  \o <<DefE(W)>> \o body
  /\ defMap = buildDefMap(hIR, {V, W})
  /\ useMap = buildUseMap(hIR, {V, W})
  /\ requireWideReferences \in
       (IF hInfo[V].kind = "global" /\ hInfo[V].flags = {} THEN BOOLEAN
        ELSE {FALSE})
  /\ hType = [y \in {V, W, X, R, O} |-> IF y = R THEN refType(ValT) ELSE ValT]
  /\ varVec \in {<<V>>, <<V, W>>, <<W, V>>}
  /\ varIdx = 1
  /\ heapAllocatedVars = <<>>
  /\ heapTypeMap = {}
  /\ hTmp = 0
  /\ hpc = "promote"
  /\ hAborted = FALSE

InitHeap == HeapInit /\ BundleIdle /\ FreeIdle /\ RestIdle

NextHeap == promoteVar

SpecHeap == InitHeap /\ [][NextHeap]_vars

(***************************************************************************)
(* freeHeapAllocatedVars, for one heap-allocated local V of one function.  *)
(*                                                                         *)
(* A statement names the block it is in, its form, the variable it uses    *)
(* (src), the variable it defines (dst) and the function it calls (fn).    *)
(***************************************************************************)

\* two local references the heap variable may flow to
R1 == Sym("r", 1, 0)
R2 == Sym("r", 2, 0)

\* the blocks and conditionals of the function, each with its parentExpr
\* (0 is NULL): node 1 is fn->body; 2 and 3 are blocks in it; 4 is a
\* conditional in it, with then-block 5 and else-block 6; 7 is a block in
\* block 2
BlockParent == <<0, 1, 1, 1, 4, 4, 2>>
BlockKind == <<"block", "block", "block", "cond", "block", "block", "block">>
Blocks == {n \in DOMAIN BlockKind : BlockKind[n] = "block"}
\* fn->body
FnBody == 1

FStmt(form, blk, src, dst, fn) ==
  [form |-> form, blk |-> blk, src |-> src, dst |-> dst, fn |-> fn]

\* move(V, here_alloc): the statement insertChplHereAlloc put after the
\* declaration of V
AllocStmt == FStmt("alloc", FnBody, NoSym, V, "")

\* the forms in which the statements of the function use a variable:
\*   set_member        set_member(src, value, tmp)
\*   get_member_value  move(tmp, get_member_value(src, value))
\*   get_member        move(dst, get_member(src, value))
\*   addr_of           move(dst, addr_of(src))
\*   move              move(dst, src)
\*   call              fn(src)
NestedForms == {"get_member_value", "get_member", "addr_of"}

\* the call that is se->parentExpr, by the form of the statement
ParentCall(s) == IF s.form = "call" THEN s.fn ELSE s.form

\* gFnSymbols
gFnSymbols == <<"main", "f_plain", "f_task", "f_caller", "f_caller2">>

FlagsOfFn(fn) == IF fn = "f_task" THEN taskFlags ELSE {}

\* fn->calledBy as the callers: f_caller calls f_task, f_caller2 calls
\* f_caller, and main, the function of V, makes the calls of fIR
FnCalledBy(fn) ==
  (IF \E k \in DOMAIN fIR : fIR[k].form = "call" /\ fIR[k].fn = fn
   THEN <<"main">> ELSE <<>>)
  \o (CASE fn = "f_task" -> <<"f_caller">>
        [] fn = "f_caller" -> <<"f_caller2">>
        [] OTHER -> <<>>)

\* Vec::add_exclusive of each element of cs
RECURSIVE addExclusiveAll(_, _)
addExclusiveAll(vec, cs) ==
  IF cs = <<>> THEN vec
  ELSE addExclusiveAll(IF Head(cs) \in Range(vec) THEN vec
                       ELSE Append(vec, Head(cs)),
                       Tail(cs))

\* the loop that adds the callers of the functions added so far
RECURSIVE addCallers(_, _)
addCallers(vec, i) ==
  IF i > Len(vec) THEN vec
  ELSE addCallers(addExclusiveAll(vec, FnCalledBy(vec[i])), i + 1)

\* the functions made from begin, cobegin and coforall statements
startsTask(fn) ==
  FlagsOfFn(fn) \cap {"begin", "cobegin_or_coforall", "non_blocking"} # {}

\* the def and use maps of buildDefUseMaps, as statement indices
freeDefs(y) ==
  LET Def(k) == fIR[k].dst = y
  IN SelectSeq([k \in DOMAIN fIR |-> k], Def)
freeUses(y) ==
  LET Use(k) == fIR[k].src = y
  IN SelectSeq([k \in DOMAIN fIR |-> k], Use)

\* the functions that may start a task are collected; V is tracked when it
\* has exactly one def
collectTaskFns ==
  /\ fpc = "collect"
  /\ fnsContainingTaskll' = addCallers(SelectSeq(gFnSymbols, startsTask), 1)
  /\ IF Len(freeDefs(V)) = 1
     THEN /\ varsToTrack' = <<V>>
          /\ fpc' = "track"
     ELSE /\ varsToTrack' = <<>>
          /\ fpc' = "done"
  /\ trackIdx' = 1
  /\ freeVar' = TRUE
  /\ UNCHANGED <<fIR, taskFlags, frees, bundleVars, heapVars, restState>>

\* a mutant: a get_member of the variable is not taken as a use of it
unwrapPrims_noGetMember ==
  {"addr_of", "get_svec_member", "wide_get_locale", "wide_get_node"}

\* the primitives whose use counts as a use of their argument
unwrapPrims ==
  {"addr_of", "get_member", "get_svec_member", "wide_get_locale",
   "wide_get_node"}

\* the uses of one tracked variable, in order: the variables to track next
\* and whether a use passes it to a function that may start a task
RECURSIVE scanUses(_, _)
scanUses(uses, adds) ==
  IF uses = <<>> THEN [adds |-> adds, escaped |-> FALSE]
  ELSE LET s == fIR[Head(uses)]
           call == IF ParentCall(s) \in unwrapPrims THEN "move"
                   ELSE ParentCall(s)
       IN IF call \in {"move", "assign"}
          THEN scanUses(Tail(uses), Append(adds, s.dst))
          ELSE IF s.form = "call" /\ call \in Range(fnsContainingTaskll)
          THEN [adds |-> adds, escaped |-> TRUE]
          ELSE scanUses(Tail(uses), adds)

\* the largest length of varsToTrack the tracking loop goes on from
MaxTrack == 8

\* one iteration of forv_Vec(Symbol, v, varsToTrack)
trackVar ==
  /\ fpc = "track"
  /\ trackIdx <= Len(varsToTrack)
  /\ Len(varsToTrack) <= MaxTrack
  /\ LET r == scanUses(freeUses(varsToTrack[trackIdx]), <<>>)
     IN IF r.escaped
        THEN /\ freeVar' = FALSE
             /\ fpc' = "done"
             /\ UNCHANGED <<varsToTrack, trackIdx>>
        ELSE /\ varsToTrack' = varsToTrack \o r.adds
             /\ trackIdx' = trackIdx + 1
             /\ fpc' = IF trackIdx + 1 > Len(varsToTrack') THEN "place"
                       ELSE "track"
             /\ UNCHANGED freeVar
  /\ UNCHANGED <<fIR, taskFlags, fnsContainingTaskll, frees, bundleVars,
                 heapVars, restState>>

\* the move call of statement k, an Expr that is no block
StmtNode(k) == Len(BlockKind) + k
\* e->parentExpr, 0 for NULL
ParentExprOf(e) ==
  IF e > Len(BlockKind) THEN fIR[e - Len(BlockKind)].blk ELSE BlockParent[e]
\* toBlockStmt(e), 0 for NULL
toBlockStmt(e) ==
  IF e \in DOMAIN BlockKind /\ BlockKind[e] = "block" THEN e ELSE 0

\* the loop from se->parentExpr->parentExpr up, until the use is found to
\* be in innermostBlock
RECURSIVE walkUp(_, _, _, _)
walkUp(block, cur, inner, found) ==
  IF block = 0 \/ found
  THEN [cur |-> cur, inner |-> inner, found |-> found]
  ELSE walkUp(ParentExprOf(block),
              IF cur = 0 THEN toBlockStmt(block) ELSE cur,
              IF inner = 0 THEN toBlockStmt(block) ELSE inner,
              IF inner = 0 THEN toBlockStmt(block) # 0 ELSE block = inner)

\* while (block && block != target) block = block->parentExpr
RECURSIVE climbTo(_, _)
climbTo(block, target) ==
  IF block = 0 \/ block = target THEN block
  ELSE climbTo(ParentExprOf(block), target)

\* while ((innermostBlock = innermostBlock->parentExpr)): the first
\* ancestor of innermostBlock that is an ancestor of curInnermostBlock
enclosing(inner, cur) ==
  LET RECURSIVE up(_)
      up(e) ==
        IF ParentExprOf(e) = 0 THEN 0
        ELSE IF climbTo(ParentExprOf(cur), ParentExprOf(e)) # 0
        THEN ParentExprOf(e)
        ELSE up(ParentExprOf(e))
  IN up(inner)

\* the body of forv_Vec(SymExpr, se, *useMap.get(var)) for the use in
\* statement k
useInBlock(st, k) ==
  LET first == IF fIR[k].form \in NestedForms THEN StmtNode(k) ELSE fIR[k].blk
      w == walkUp(first, 0, st.inner, FALSE)
  IN IF w.found THEN [st EXCEPT !.inner = w.inner]
     ELSE IF climbTo(w.inner, w.cur) # 0 THEN [st EXCEPT !.inner = w.cur]
     ELSE LET e == enclosing(w.inner, w.cur)
          IN IF e = 0 THEN [st EXCEPT !.aborted = TRUE]   \* INT_FATAL
             ELSE [st EXCEPT !.inner = e]

RECURSIVE innermostBlock(_, _)
innermostBlock(st, uses) ==
  IF uses = <<>> \/ st.aborted THEN st
  ELSE innermostBlock(useInBlock(st, Head(uses)), Tail(uses))

\* the free of a variable found not to reach a task: here_free is put
\* before the return label when the block of the uses is fn->body, else at
\* the tail of that block; INT_ASSERT(block) fails when it is no block
placeFree ==
  /\ fpc = "place"
  /\ LET move == fIR[freeDefs(V)[1]]
         st == innermostBlock([inner |-> 0, aborted |-> FALSE], freeUses(V))
     IN IF ~freeVar
        THEN /\ fpc' = "done"
             /\ UNCHANGED frees
        ELSE IF move.form # "alloc" \/ freeUses(V) = <<>> \/ st.aborted
        THEN /\ fpc' = "aborted"
             /\ UNCHANGED frees
        ELSE IF st.inner = FnBody
        THEN /\ frees' = Append(frees, [at |-> "beforeReturnLabel",
                                        blk |-> FnBody, sym |-> move.dst])
             /\ fpc' = "done"
        ELSE IF toBlockStmt(st.inner) = 0
        THEN /\ fpc' = "aborted"
             /\ UNCHANGED frees
        ELSE /\ frees' = Append(frees, [at |-> "blockTail",
                                        blk |-> st.inner, sym |-> move.dst])
             /\ fpc' = "done"
  /\ UNCHANGED <<fIR, taskFlags, fnsContainingTaskll, varsToTrack, trackIdx,
                 freeVar, bundleVars, heapVars, restState>>

\* the largest number of statements of the function that use a variable
MaxUses == 2

\* the statements of the function that use V, by block, and those that
\* use the references V may flow to
FreeStmtChoices ==
  {FStmt(f, b, V, NoSym, "") :
     f \in {"set_member", "get_member_value"}, b \in Blocks}
  \cup {FStmt("get_member", b, V, R1, "") : b \in Blocks}
  \cup {FStmt("call", FnBody, V, NoSym, "f_task"),
        FStmt("move", FnBody, R1, R2, ""),
        FStmt("addr_of", FnBody, R2, R1, ""),
        FStmt("call", FnBody, R2, NoSym, "f_task"),
        FStmt("call", FnBody, R1, NoSym, "f_caller2")}

RECURSIVE FreeBodies(_)
FreeBodies(n) ==
  IF n = 0 THEN {<<>>}
  ELSE {Append(b, s) : b \in FreeBodies(n - 1), s \in FreeStmtChoices}

\* the flags f_task may have
TaskFlagChoices ==
  {{"begin"}, {"cobegin_or_coforall"}, {"on", "non_blocking"}, {"on"}}

FreeInit ==
  /\ \E n \in 0..MaxUses :
       \E body \in FreeBodies(n) : fIR = <<AllocStmt>> \o body
  /\ taskFlags \in TaskFlagChoices
  /\ fnsContainingTaskll = <<>>
  /\ varsToTrack = <<>>
  /\ trackIdx = 1
  /\ freeVar = TRUE
  /\ frees = <<>>
  /\ fpc = "collect"

InitFree == FreeInit /\ BundleIdle /\ HeapIdle /\ RestIdle

NextFree ==
  \/ collectTaskFns
  \/ trackVar
  \/ placeFree

SpecFree == InitFree /\ [][NextFree]_vars

(***************************************************************************)
(* Heap promotion: the forms of the defs and uses after the rewrite        *)
(***************************************************************************)

\* the variables of varVec the loop has promoted so far
skippedByLoop(y) ==
  \/ "extern" \in hInfo[y].flags
  \/ "print_module_init_indent_level" \in hInfo[y].flags
  \/ hInfo[y].kind = "global" /\ ~requireWideReferences
  \/ hInfo[y].kind = "formal"
Promoted ==
  {varVec[i] : i \in {q \in DOMAIN varVec : q < varIdx /\ ~skippedByLoop(varVec[q])}}

\* the occurrences of y in the IR
Occurrences(y) ==
  LET Mine(e) == e.node.sym = y
  IN Range(SelectSeq(SymNodes(hIR), Mine))

IsSetMemberValue(e) ==
  e.parent.op = "set_member" /\ e.pos = 1 /\ e.parent.args[2] = FieldE("value")
IsGetMemberValue(e) ==
  /\ e.parent.op \in {"get_member", "get_member_value"}
  /\ e.pos = 1
  /\ e.parent.args[2] = FieldE("value")
IsHeapFormalActual(e) ==
  e.parent.op = "call" /\ FnFormalType(e.parent.fn) = buildHeapType(ValT)
IsAllocation(e) ==
  e.parent.op = "move" /\ e.pos = 1 /\ e.parent.args[2].op = "here_alloc"

Allocations(y) ==
  {k \in DOMAIN hIR : hIR[k] = HereAlloc(y)}

FlowsFrom(S) ==
  {fIR[k].dst : k \in {q \in DOMAIN fIR :
                         /\ fIR[q].src \in S
                         /\ fIR[q].form \in {"move", "addr_of", "get_member"}}}
RECURSIVE ReachedFrom(_)
ReachedFrom(S) ==
  IF FlowsFrom(S) \subseteq S THEN S ELSE ReachedFrom(S \cup FlowsFrom(S))

\* the begin, cobegin/coforall and non-blocking functions and their direct
\* and transitive callers
RECURSIVE CallersClosure(_)
CallersClosure(F) ==
  LET more == UNION {Range(FnCalledBy(f)) : f \in F}
  IN IF more \subseteq F THEN F ELSE CallersClosure(F \cup more)
TaskFns ==
  CallersClosure({f \in Range(gFnSymbols) :
                    FlagsOfFn(f) \cap {"begin", "cobegin_or_coforall",
                                       "non_blocking"} # {}})

ReachesTask ==
  \E k \in DOMAIN fIR :
    /\ fIR[k].form = "call"
    /\ fIR[k].src \in ReachedFrom({V})
    /\ fIR[k].fn \in TaskFns

RECURSIVE EnclosingBlocks(_)
EnclosingBlocks(b) ==
  IF b = 0 THEN {}
  ELSE (IF BlockKind[b] = "block" THEN {b} ELSE {})
       \cup EnclosingBlocks(BlockParent[b])

\* the innermost block statement that contains all the uses of V
LowestCommonBlock ==
  LET common == {b \in Blocks :
                   \A k \in Range(freeUses(V)) : b \in EnclosingBlocks(fIR[k].blk)}
  IN CHOOSE b \in common : \A c \in common : c \in EnclosingBlocks(b)

\* C10: once the analysis of a V that has uses and does not reach a task
\* has ended, exactly one here_free is in the function: before the return
\* label when the innermost block that contains all the uses of V is the
\* body of the function, else at the tail of that block
C10_FreeAtLowestCommonBlock ==
  (fpc \in {"done", "aborted"} /\ ~ReachesTask /\ freeUses(V) # <<>>) =>
    frees = << [at |-> IF LowestCommonBlock = FnBody THEN "beforeReturnLabel"
                       ELSE "blockTail",
                blk |-> LowestCommonBlock, sym |-> V] >>

(***************************************************************************)
(* The module-level variables: findHeapVarsAndRefs, the promotion loop,    *)
(* and insertWideReferences.                                               *)
(*                                                                         *)
(* hIR is the body of the initialization function of module M; it starts   *)
(* with the DefExprs of its locals x and r.  The globals g1, g2, ... have   *)
(* their DefExprs in M or in the root module.                              *)
(***************************************************************************)

\* the largest number of module-level variables
MaxGlobals == 2

\* the i-th module-level variable
G(i) == Sym("g", i, 0)

\* an integer, a class and an array (a record-wrapped type)
IntT == [form |-> "val", of |-> "int"]
ClassT == [form |-> "class", of |-> "C"]
ArrayT == [form |-> "recordWrapped", of |-> "A"]

\* is_bool_type || is_enum_type || is_int_type || ... || a plain record
isReplicatedType(t) == t.form = "val"
isRecordWrappedType(t) == t.form = "recordWrapped"

\* requireWideReferences() over the configuration: false on a single locale
\* or when the communication layer registers the full memory
requireWideReferencesOf(local, fullSegment) == ~local /\ ~fullSegment

\* the module-level variables of the program, in the order of gDefExprs
Globals ==
  SelectSeq([i \in 1..(MaxGlobals + 1) |-> G(i)], LAMBDA g : g \in DOMAIN hInfo)

\* new CallExpr(PRIM_PRIVATE_BROADCAST, sym)
PrivateBroadcast(sym) == Prim("private_broadcast", <<SymE(sym, 0)>>)

\* the forv_Vec(SymExpr, se, symExprs) of replicateGlobalRecordWrappedVars
\* on statement k; st is [cur, useFirst, found, aborted], useFirst 0 is NULL
RECURSIVE replicateSymExprs(_, _, _, _)
replicateSymExprs(es, stmt, k, st) ==
  IF es = <<>> \/ st.found \/ st.aborted THEN st
  ELSE LET e == Head(es)
           result == isDefAndOrUse(e)
       IN IF e.node.sym # st.cur THEN replicateSymExprs(Tail(es), stmt, k, st)
          ELSE IF result \in {1, 3}
          THEN IF st.useFirst # 0 THEN [st EXCEPT !.aborted = TRUE]
               ELSE [st EXCEPT !.found = TRUE]
          ELSE IF st.useFirst = 0
          THEN IF \/ e.parent.op # "addr_of"
                  \/ e.parent = stmt
                  \/ stmt.args = <<>>
                  \/ stmt.args[1].op # "sym"
               THEN [st EXCEPT !.aborted = TRUE]
               ELSE replicateSymExprs(Tail(es), stmt, k,
                                      [st EXCEPT !.cur = stmt.args[1].sym,
                                                 !.useFirst = k])
          ELSE IF stmt.op # "call" THEN [st EXCEPT !.aborted = TRUE]
               ELSE [st EXCEPT !.found = TRUE]

\* while (stmt->next && !found) { stmt = stmt->next; ... } from statement k
RECURSIVE replicateLoop(_, _, _)
replicateLoop(ir, k, st) ==
  IF k >= Len(ir) \/ st.found \/ st.aborted THEN [k |-> k, st |-> st]
  ELSE replicateLoop(ir, k + 1,
                     replicateSymExprs(SymNodes(<<ir[k + 1]>>), ir[k + 1],
                                       k + 1, st))

\* replicateGlobalRecordWrappedVars(def): the broadcast goes after the
\* statement of the first def, or after the statement that uses the
\* captured reference
replicateGlobalRecordWrappedVars(fs, sym) ==
  LET r == replicateLoop(fs.ir, 1, [cur |-> sym, useFirst |-> 0,
                                    found |-> FALSE, aborted |-> FALSE])
  IN IF r.st.aborted THEN [fs EXCEPT !.aborted = TRUE]
     ELSE [fs EXCEPT !.ir = InsertAfterStmt(@, r.k, <<PrivateBroadcast(sym)>>)]

\* a mutant: the constant is put on the heap like any other global
replicateConst_promoted(fs, sym) == [fs EXCEPT !.varVec = Append(@, sym)]

\* the replication of a global const of primitive type: one broadcast
\* after the statement of each def, of which there is one
replicateConst(fs, sym) ==
  IF Len(defMap[sym]) # 1 THEN [fs EXCEPT !.aborted = TRUE]
  ELSE [fs EXCEPT !.ir = InsertAfterStmt(@, Loc(@, defMap[sym][1]).k,
                                         <<PrivateBroadcast(sym)>>)]

\* the body of forv_Vec(DefExpr, def, gDefExprs) for the DefExpr of sym
findHeapVarOrRef(fs, sym, local) ==
  LET info == hInfo[sym]
      type == hType[sym]
  IN IF "coforall_index_var" \in info.flags
     THEN IF type.form = "ref" THEN [fs EXCEPT !.refVec = Append(@, sym)]
          ELSE IF type.form # "val" THEN [fs EXCEPT !.varVec = Append(@, sym)]
          ELSE fs
     ELSE IF /\ ~local
             /\ info.kind = "global"
             /\ info.module # "root"
             /\ "private" \notin info.flags
             /\ "extern" \notin info.flags
     THEN IF "const" \in info.flags /\ isReplicatedType(type)
          THEN replicateConst(fs, sym)
          ELSE IF isRecordWrappedType(type)
          THEN replicateGlobalRecordWrappedVars(fs, sym)
          ELSE [fs EXCEPT !.varVec = Append(@, sym)]
     ELSE fs

RECURSIVE findHeapVarsAndRefsLoop(_, _, _)
findHeapVarsAndRefsLoop(fs, syms, local) ==
  IF syms = <<>> \/ fs.aborted THEN fs
  ELSE findHeapVarsAndRefsLoop(findHeapVarOrRef(fs, Head(syms), local),
                               Tail(syms), local)

\* findHeapVarsAndRefs over the DefExprs of the globals and of the locals
\* of the initialization function; no reference reaches refVec here, so
\* the promotion loop is what follows
findHeapVarsAndRefs ==
  /\ hpc = "find"
  /\ ~hAborted
  /\ \E fs \in {findHeapVarsAndRefsLoop(
                  [ir |-> hIR, varVec |-> <<>>, refVec |-> <<>>,
                   aborted |-> FALSE],
                  Globals \o <<X, R>>, fLocal)} :
       /\ hIR' = fs.ir
       /\ varVec' = fs.varVec
       /\ hAborted' = fs.aborted
       /\ hpc' = IF fs.aborted THEN hpc
                 ELSE IF fs.varVec = <<>> THEN "done" ELSE "promote"
  /\ UNCHANGED <<hType, hInfo, varIdx, defMap, useMap, heapAllocatedVars,
                 heapTypeMap, hTmp, requireWideReferences, bundleVars,
                 freeState, restState>>

\* what a module-level variable is: its flags, its module and its type
GlobalChoices ==
  LET gl(flags, module, type) ==
        [info |-> [kind |-> "global", flags |-> flags, module |-> module],
         type |-> type]
  IN { gl({"const"}, "M", IntT),
       gl({}, "M", IntT),
       gl({"const"}, "M", ClassT),
       gl({"const", "private"}, "M", IntT),
       gl({"const", "extern"}, "M", IntT),
       gl({"const"}, "root", IntT),
       gl({"const"}, "M", ArrayT) }

\* the statements of the initialization function on global i: its def,
\* then possibly a use or, of a variable, a second def; an array may be
\* initialized through a captured reference instead
GlobalStmtForms(c) ==
  {"def", "def_use"}
  \cup (IF "const" \in c.info.flags THEN {} ELSE {"def_def"})
  \cup (IF isRecordWrappedType(c.type) THEN {"use_first"} ELSE {})

GlobalStmts(form, i) ==
  LET g == G(i)
      a == 10 * i
      def == Prim("move", <<SymE(g, a + 1), SymE(X, a + 2)>>)
  IN CASE form = "def" -> <<def>>
       [] form = "def_use" ->
            <<def, Prim("move", <<SymE(X, a + 3), SymE(g, a + 4)>>)>>
       [] form = "def_def" ->
            <<def, Prim("move", <<SymE(g, a + 3), SymE(X, a + 4)>>)>>
       [] form = "use_first" ->
            << Prim("move", <<SymE(R, a + 1),
                              Prim("addr_of", <<SymE(g, a + 2)>>)>>),
               Call("buildInit", <<SymE(R, a + 3)>>) >>

\* the programs of n module-level variables: what each is, and the body of
\* the initialization function
RECURSIVE GlobalPrograms(_)
GlobalPrograms(n) ==
  IF n = 0 THEN {[what |-> <<>>, body |-> <<>>]}
  ELSE UNION {
         UNION { {[what |-> Append(p.what, c),
                   body |-> p.body \o GlobalStmts(f, n)] :
                    f \in GlobalStmtForms(c)} : c \in GlobalChoices } :
         p \in GlobalPrograms(n - 1) }

\* the string type, a class flagged no_wide_class, the type of nil
StringT == [form |-> "string", of |-> "string"]
NoWideT == [form |-> "class", of |-> "NW"]
NilT == [form |-> "nil", of |-> "nil"]

\* isClass(t): a class, and also a reference to a class
isClass(t) ==
  \/ t.form \in {"class", "heap"}
  \/ t.form = "ref" /\ t.of \in {"C", "NW"}

\* a new ClassType(CLASS_RECORD) with the fields locale and addr, flagged
\* wide or wide_class; it is the n-th wide type made
newWideType(flag, t, n) == [form |-> flag, of |-> t.of, addr |-> t.form, n |-> n]
\* wide->getField("addr")->type
addrType(w) == [form |-> w.addr, of |-> w.of]
isWide(t) == t.form \in {"wide", "wide_class"}

\* Map::get is non-NULL, and Map::put
Has(m, k) == k \in DOMAIN m
Put(m, k, v) == [x \in DOMAIN m \cup {k} |-> IF x = k THEN v ELSE m[x]]

\* the type symbols of the program before widening: the heap types are
\* those buildHeapType made
gTypeSymbols ==
  <<IntT, StringT, ClassT, NoWideT, ArrayT,
    refType(IntT), refType(ClassT), refType(ArrayT)>>
  \o SelectSeq(<<buildHeapType(IntT), buildHeapType(ClassT)>>,
               LAMBDA h : \E t \in heapTypeMap : buildHeapType(t) = h)

\* the DefExprs of the program besides those of the variables of hType: the
\* symbol is a variable, a formal or a function; parent and pflags are the
\* parentSymbol and its flags; type is the type or the return type.  The
\* fields of the wide types are among them: locale and addr
DefChoices ==
  LET DefTypes == {ClassT, StringT, IntT, refType(IntT)}
      def(sym, imm, flags, parent, pflags, type) ==
        [sym |-> sym, immediate |-> imm, flags |-> flags, parent |-> parent,
         pflags |-> pflags, type |-> type]
  IN UNION { { def("var", FALSE, {}, "fn", {}, t),
               def("var", TRUE, {}, "fn", {}, t),
               def("var", FALSE, {}, "type", {}, t),
               def("var", FALSE, {"super_class"}, "type", {}, t) }
             \cup { def("arg", FALSE, {}, "fn", fl, t) :
                      fl \in SUBSET {"extern", "local_args"} }
             \cup { def("fn", FALSE, fl, "module", {}, t) :
                      fl \in SUBSET {"extern", "local_args"} }
             : t \in DefTypes }
     \cup { def("var", FALSE, {}, "type", {"wide_class"}, t) :
              t \in {ClassT, StringT, IntT} }
     \cup { def("var", FALSE, {}, "type", {"wide"}, t) :
              t \in {refType(IntT), IntT} }

\* the state when makeHeapAllocations reaches findHeapVarsAndRefs; the
\* configuration decides requireWideReferences()
GlobalsInit ==
  /\ \E n \in 0..MaxGlobals :
       \E p \in GlobalPrograms(n) :
         /\ hInfo = [y \in {G(i) : i \in 1..n} \cup {X, R} |->
                       IF y \in {X, R}
                       THEN [kind |-> "local", flags |-> {}, module |-> ""]
                       ELSE p.what[y.a].info]
         /\ hType = [y \in {G(i) : i \in 1..n} \cup {X, R} |->
                       IF y = X THEN IntT
                       ELSE IF y = R THEN refType(ArrayT)
                       ELSE p.what[y.a].type]
         /\ hIR = <<DefE(X), DefE(R)>> \o p.body
  /\ defMap = buildDefMap(hIR, DOMAIN hInfo)
  /\ useMap = buildUseMap(hIR, DOMAIN hInfo)
  /\ fLocal \in BOOLEAN
  /\ commFullSegment \in BOOLEAN
  /\ requireWideReferences = requireWideReferencesOf(fLocal, commFullSegment)
  /\ varVec = <<>>
  /\ varIdx = 1
  /\ heapAllocatedVars = <<>>
  /\ heapTypeMap = {}
  /\ hTmp = 0
  /\ hpc = "find"
  /\ hAborted = FALSE
  /\ gDefExprs = [d \in DefChoices |-> d.type]
  /\ haFns = <<>>
  /\ numGlobalsOnHeap = 0
  /\ wideClassMap = <<>>
  /\ wideRefMap = <<>>
  /\ wideTypes = <<>>
  /\ gHeapVars = <<>>
  /\ wCalls = 0
  /\ wRet = <<>>
  /\ wAborted = FALSE
  /\ wpc = "head"

InitGlobals == GlobalsInit /\ BundleIdle /\ FreeIdle /\ LaterIdle

\* getHeapVars: the module-level variables outside the root module whose
\* type is flagged heap
getHeapVars ==
  SelectSeq(Globals, LAMBDA g : /\ hInfo[g].kind = "global"
                                /\ hInfo[g].module # "root"
                                /\ hType[g].form = "heap")

gVoid == Sym("void", 0, 0)
gNodeID == Sym("nodeID", 0, 0)
\* new_IntSymbol(i)
IntSymbol(i) == Sym("int", i, 0)
ReturnVoid == Prim("return", <<SymE(gVoid, 0)>>)
\* new CondStmt(cond, block)
CondStmt(cond, block) == Prim("cond", <<cond>> \o block)

\* a mutant: the stub is left empty
headBody_empty(wide) == <<>>

\* the body heapAllocateGlobalsHead gives to the function
headBody(wide) == IF ~wide THEN <<ReturnVoid>> ELSE <<>>

\* insertWideReferences up to convertNilToObject: heapAllocateGlobalsHead
\* makes the function chpl__heapAllocateGlobals; that is all when the
\* program needs no wide references, and otherwise getHeapVars follows
heapAllocateGlobalsHead ==
  /\ hpc = "done"
  /\ wpc = "head"
  /\ haFns' = Append(haFns, [name |-> "chpl__heapAllocateGlobals",
                            flags |-> {"export", "local_args"},
                            body |-> headBody(requireWideReferences)])
  /\ IF ~requireWideReferences
     THEN wpc' = "done" /\ UNCHANGED gHeapVars
     ELSE wpc' = "classes" /\ gHeapVars' = getHeapVars
  /\ UNCHANGED <<fLocal, commFullSegment, gDefExprs, numGlobalsOnHeap,
                 wideClassMap, wideRefMap, wideTypes, wCalls, wRet, wAborted,
                 bundleVars, heapVars, freeState, laterState>>

\* buildWideClass(type) on ws = [map, types, aborted]
buildWideClass(ws, type) ==
  LET wide == newWideType("wide_class", type, Len(ws.types) + 1)
  IN IF /\ type = StringT
        /\ \E w \in Range(ws.types) :
             w.form = "wide_class" /\ addrType(w) = StringT
     THEN [ws EXCEPT !.aborted = TRUE]  \* "Created two wide string types"
     ELSE [ws EXCEPT !.map = Put(@, type, wide),
                     !.types = Append(@, wide)]

RECURSIVE buildWideClassesLoop(_, _)
buildWideClassesLoop(ws, ts) ==
  IF ts = <<>> \/ ws.aborted THEN ws
  ELSE buildWideClassesLoop(
         IF /\ Head(ts).form \notin {"val", "string", "nil"}
            /\ isClass(Head(ts))
            /\ Head(ts).form # "ref"
            /\ Head(ts) # NoWideT
         THEN buildWideClass(ws, Head(ts)) ELSE ws,
         Tail(ts))

\* INT_ASSERT(wideClassMap.n == 0); buildWideClasses()
buildWideClasses ==
  /\ wpc = "classes"
  /\ ~wAborted
  /\ IF wideClassMap # <<>>
     THEN wAborted' = TRUE /\ UNCHANGED <<wideClassMap, wideTypes, wpc>>
     ELSE LET ws == buildWideClass(
                      buildWideClassesLoop(
                        [map |-> wideClassMap, types |-> wideTypes,
                         aborted |-> FALSE], gTypeSymbols),
                      StringT)
          IN /\ wideClassMap' = ws.map
             /\ wideTypes' = ws.types
             /\ wAborted' = ws.aborted
             /\ wpc' = IF ws.aborted THEN wpc ELSE "widenClasses"
  /\ UNCHANGED <<fLocal, commFullSegment, gDefExprs, haFns, numGlobalsOnHeap,
                 wideRefMap, gHeapVars, wCalls, wRet, bundleVars, heapVars,
                 freeState, laterState>>

\* a mutant: local_args is read on the formals, not on the return type
widenClassesDef_swapped(d, ty, m) ==
  IF \/ d.sym = "var" /\ d.immediate
     \/ d.parent = "type" /\ "wide_class" \in d.pflags
     \/ "super_class" \in d.flags
     \/ d.sym = "arg" /\ d.pflags \cap {"extern", "local_args"} # {}
     \/ d.sym = "fn" /\ "extern" \in d.flags
     \/ ~Has(m, ty)
  THEN ty ELSE m[ty]

\* the body of forv_Vec(DefExpr, def, gDefExprs) in widenClasses: the type
\* (the return type) of d after it, ty before it
widenClassesDef(d, ty, m) ==
  IF d.sym = "var" /\ d.immediate THEN ty
  ELSE IF d.parent = "type" /\ "wide_class" \in d.pflags THEN ty
  ELSE IF "super_class" \in d.flags THEN ty
  ELSE IF d.sym = "fn"
  THEN IF d.flags \cap {"extern", "local_args"} = {} /\ Has(m, ty)
       THEN m[ty] ELSE ty
  ELSE IF Has(m, ty) /\ (d.sym = "var" \/ "extern" \notin d.pflags)
  THEN m[ty] ELSE ty

\* what d is for the DefExpr of a variable of hType
VarDef(y) ==
  [sym |-> "var", immediate |-> FALSE, flags |-> {},
   parent |-> IF y \in DOMAIN hInfo /\ hInfo[y].kind = "global"
              THEN "module" ELSE "fn",
   pflags |-> {}, type |-> hType[y]]

widenClasses ==
  /\ wpc = "widenClasses"
  /\ ~wAborted
  /\ gDefExprs' = [d \in DOMAIN gDefExprs |->
                     widenClassesDef(d, gDefExprs[d], wideClassMap)]
  /\ hType' = [y \in DOMAIN hType |->
                 widenClassesDef(VarDef(y), hType[y], wideClassMap)]
  /\ wpc' = "refs"
  /\ UNCHANGED <<fLocal, commFullSegment, haFns, numGlobalsOnHeap,
                 wideClassMap, wideRefMap, wideTypes, gHeapVars, wCalls, wRet,
                 wAborted, bundleVars, freeState, laterState, hIR, hInfo, varVec, varIdx,
                 defMap, useMap, heapAllocatedVars, heapTypeMap, hTmp,
                 requireWideReferences, hpc, hAborted>>

RECURSIVE buildWideRefMapLoop(_, _)
buildWideRefMapLoop(ws, ts) ==
  IF ts = <<>> THEN ws
  ELSE buildWideRefMapLoop(
         IF Head(ts).form = "ref"
         THEN LET wide == newWideType("wide", Head(ts), Len(ws.types) + 1)
              IN [ws EXCEPT !.map = Put(@, Head(ts), wide),
                            !.types = Append(@, wide)]
         ELSE ws,
         Tail(ts))

\* INT_ASSERT(wideRefMap.n == 0); buildWideRefMap()
buildWideRefMap ==
  /\ wpc = "refs"
  /\ ~wAborted
  /\ IF wideRefMap # <<>>
     THEN wAborted' = TRUE /\ UNCHANGED <<wideRefMap, wideTypes, wpc>>
     ELSE LET ws == buildWideRefMapLoop(
                      [map |-> wideRefMap, types |-> wideTypes,
                       aborted |-> FALSE], gTypeSymbols \o wideTypes)
          IN /\ wideRefMap' = ws.map
             /\ wideTypes' = ws.types
             /\ wAborted' = FALSE
             /\ wpc' = "widenRefs"
  /\ UNCHANGED <<fLocal, commFullSegment, gDefExprs, haFns, numGlobalsOnHeap,
                 wideClassMap, gHeapVars, wCalls, wRet, bundleVars, heapVars,
                 freeState, laterState>>

\* the body of forv_Vec(DefExpr, def, gDefExprs) in widenRefs
widenRefsDef(d, ty, m) ==
  IF d.parent = "type" /\ "wide" \in d.pflags THEN ty
  ELSE IF "super_class" \in d.flags THEN ty
  ELSE IF Has(m, ty) THEN m[ty] ELSE ty

widenRefs ==
  /\ wpc = "widenRefs"
  /\ ~wAborted
  /\ gDefExprs' = [d \in DOMAIN gDefExprs |->
                     widenRefsDef(d, gDefExprs[d], wideRefMap)]
  /\ hType' = [y \in DOMAIN hType |->
                 widenRefsDef(VarDef(y), hType[y], wideRefMap)]
  /\ wpc' = "tail"
  /\ UNCHANGED <<fLocal, commFullSegment, haFns, numGlobalsOnHeap,
                 wideClassMap, wideRefMap, wideTypes, gHeapVars, wCalls, wRet,
                 wAborted, bundleVars, freeState, laterState, hIR, hInfo, varVec, varIdx,
                 defMap, useMap, heapAllocatedVars, heapTypeMap, hTmp,
                 requireWideReferences, hpc, hAborted>>

\* a mutant: the variables are registered in the reverse order
registerIndex_reversed(k, n) == n - k

\* the index heapAllocateGlobalsTail registers the k-th of n heap variables
\* with: i++ from 0
registerIndex(k, n) == k - 1

\* heapAllocateGlobalsTail(heapAllocateGlobals, heapVars): the allocations
\* in a block run by node 0, the registrations, the broadcast
heapAllocateGlobalsTail ==
  LET tmp == HTmp(hTmp + 1)
      tmpBool == HTmp(hTmp + 2)
      n == Len(gHeapVars)
      f == Len(haFns)
  IN
  /\ wpc = "tail"
  /\ ~wAborted
  /\ IF \E k \in DOMAIN gHeapVars : ~isWide(hType[gHeapVars[k]])
     THEN \* sym->type->getField("addr"): no such field
          /\ wAborted' = TRUE
          /\ UNCHANGED <<haFns, numGlobalsOnHeap, hTmp, hType, wpc>>
     ELSE /\ haFns' =
               [haFns EXCEPT ![f].body = @ \o
                  << DefE(tmp), DefE(tmpBool),
                     Prim("move", <<SymE(tmp, 0), SymE(gNodeID, 0)>>),
                     Prim("move", <<SymE(tmpBool, 0),
                                    Prim("==", <<SymE(tmp, 0),
                                                 SymE(IntSymbol(0), 0)>>)>>),
                     CondStmt(SymE(tmpBool, 0),
                              [k \in 1..n |-> HereAlloc(gHeapVars[k])]) >>
                  \o [k \in 1..n |->
                        Prim("heap_register_global_var",
                             <<SymE(IntSymbol(registerIndex(k, n)), 0),
                               SymE(gHeapVars[k], 0)>>)]
                  \o << Prim("heap_broadcast_global_vars",
                             <<SymE(IntSymbol(n), 0)>>),
                        ReturnVoid >>]
          /\ numGlobalsOnHeap' = n
          /\ hTmp' = hTmp + 2
          /\ hType' = hType @@ (tmp :> IntT) @@ (tmpBool :> IntT)
          /\ wpc' = "done"
          /\ UNCHANGED wAborted
  /\ UNCHANGED <<fLocal, commFullSegment, gDefExprs, wideClassMap, wideRefMap,
                 wideTypes, gHeapVars, wCalls, wRet, bundleVars, freeState, laterState, hIR,
                 hInfo, varVec, varIdx, defMap, useMap, heapAllocatedVars,
                 heapTypeMap, requireWideReferences, hpc, hAborted>>

NextGlobals ==
  \/ findHeapVarsAndRefs
  \/ promoteVar
  \/ heapAllocateGlobalsHead
  \/ buildWideClasses
  \/ widenClasses
  \/ buildWideRefMap
  \/ widenRefs
  \/ heapAllocateGlobalsTail

SpecGlobals == InitGlobals /\ [][NextGlobals]_vars

\* the largest number of calls of getOrMakeWideTypeDuringCodegen
MaxCodegen == 2

NoType == [form |-> "none", of |-> ""]

\* a mutant: the maps are not consulted
lookupWide_none(cm, rm, t) == NoType

\* "First, check if the wide type already exists": wideClassMap for a
\* class, then wideRefMap
lookupWide(cm, rm, t) ==
  IF isClass(t) /\ Has(cm, t) THEN cm[t]
  ELSE IF Has(rm, t) THEN rm[t]
  ELSE NoType

\* the reference type of a type that had none before code generation
\* (getOrMakeRefTypeDuringCodegen)
CodegenRefT == refType(StringT)

\* the types code generation may ask the wide type of, besides the wide
\* types themselves
CodegenTypes ==
  {NilT, ClassT, NoWideT, refType(IntT), refType(ClassT), CodegenRefT, IntT}

\* getOrMakeWideTypeDuringCodegen(refType)
getOrMakeWideTypeDuringCodegen ==
  /\ wpc = "done"
  /\ ~wAborted
  /\ wCalls < MaxCodegen
  /\ wCalls' = wCalls + 1
  /\ \E t \in CodegenTypes \cup Range(wideTypes) :
       LET found == lookupWide(wideClassMap, wideRefMap, t)
           wide == newWideType(IF t.form = "ref" \/ t = NilT
                               THEN "wide" ELSE "wide_class",
                               t, Len(wideTypes) + 1)
       IN IF ~(t = NilT \/ isClass(t) \/ t.form = "ref")
          THEN /\ wAborted' = TRUE
               /\ UNCHANGED <<wideClassMap, wideRefMap, wideTypes, wRet>>
          ELSE IF found # NoType
          THEN /\ wRet' = [type |-> t, wide |-> found]
               /\ UNCHANGED <<wideClassMap, wideRefMap, wideTypes, wAborted>>
          ELSE /\ wideTypes' = Append(wideTypes, wide)
               /\ IF isClass(t)
                  THEN /\ wideClassMap' = Put(wideClassMap, t, wide)
                       /\ UNCHANGED wideRefMap
                  ELSE /\ wideRefMap' = Put(wideRefMap, t, wide)
                       /\ UNCHANGED wideClassMap
               /\ wRet' = [type |-> t, wide |-> wide]
               /\ UNCHANGED wAborted
  /\ UNCHANGED <<fLocal, commFullSegment, gDefExprs, haFns, numGlobalsOnHeap,
                 gHeapVars, wpc, bundleVars, heapVars, freeState, laterState>>

\* the state when insertWideReferences starts on a program without
\* module-level variables: the heap types are those of the promoted locals
WideInit ==
  /\ hIR = <<>>
  /\ hType = <<>>
  /\ hInfo = <<>>
  /\ varVec = <<>>
  /\ varIdx = 1
  /\ defMap = <<>>
  /\ useMap = <<>>
  /\ heapAllocatedVars = <<>>
  /\ heapTypeMap \in SUBSET {IntT, ClassT}
  /\ hTmp = 0
  /\ fLocal \in BOOLEAN
  /\ commFullSegment \in BOOLEAN
  /\ requireWideReferences = requireWideReferencesOf(fLocal, commFullSegment)
  /\ hpc = "done"
  /\ hAborted = FALSE
  /\ gDefExprs = [d \in DefChoices |-> d.type]
  /\ haFns = <<>>
  /\ numGlobalsOnHeap = 0
  /\ wideClassMap = <<>>
  /\ wideRefMap = <<>>
  /\ wideTypes = <<>>
  /\ gHeapVars = <<>>
  /\ wCalls = 0
  /\ wRet = <<>>
  /\ wAborted = FALSE
  /\ wpc = "head"

InitWide == WideInit /\ BundleIdle /\ FreeIdle /\ LaterIdle

NextWide ==
  \/ heapAllocateGlobalsHead
  \/ buildWideClasses
  \/ widenClasses
  \/ buildWideRefMap
  \/ widenRefs
  \/ heapAllocateGlobalsTail
  \/ getOrMakeWideTypeDuringCodegen

SpecWide == InitWide /\ [][NextWide]_vars

(***************************************************************************)
(* Properties of the module-level variables and of insertWideReferences.   *)
(***************************************************************************)

\* the module-level constants of integer type that are neither private nor
\* extern, outside the root module
IntConsts ==
  {g \in Range(Globals) :
     /\ hInfo[g].kind = "global"
     /\ hInfo[g].module # "root"
     /\ "const" \in hInfo[g].flags
     /\ hInfo[g].flags \cap {"private", "extern"} = {}
     /\ hType[g].of = "int"}

\* the statements that broadcast g
Broadcasts(g) == {k \in DOMAIN hIR : hIR[k] = PrivateBroadcast(g)}

\* g is allocated or registered by a function chpl__heapAllocateGlobals
InHeapAllocateGlobals(g) ==
  \E f \in DOMAIN haFns :
    \E k \in DOMAIN haFns[f].body :
      LET s == haFns[f].body[k]
      IN \/ s.op = "heap_register_global_var" /\ s.args[2].sym = g
         \/ s.op = "cond" /\ HereAlloc(g) \in Range(s.args)

\* the one statement that broadcasts g is right after the statement of the
\* single def of g
BroadcastAfterDef(g) ==
  /\ Cardinality(Broadcasts(g)) = 1
  /\ Len(defMap[g]) = 1
  /\ \A k \in Broadcasts(g) : Loc(hIR, defMap[g][1]).k = k - 1

\* g is not on the way to the heap
NotPromoted(g) ==
  /\ g \notin Range(varVec)
  /\ hType[g] = IntT
  /\ ~InHeapAllocateGlobals(g)

C12_LocalNothingWidened ==
  fLocal =>
    /\ ~requireWideReferences
    /\ wideClassMap = <<>> /\ wideRefMap = <<>> /\ wideTypes = <<>>
    /\ \A y \in DOMAIN hType : ~isWide(hType[y]) /\ hType[y].form # "heap"
    /\ \A d \in DOMAIN gDefExprs : gDefExprs[d] = d.type
    /\ numGlobalsOnHeap = 0
    /\ wpc = "done" =>
         /\ Len(haFns) = 1
         /\ haFns[1].name = "chpl__heapAllocateGlobals"
         /\ haFns[1].body = <<ReturnVoid>>

C12_Witness ==
  /\ fLocal
  /\ wpc = "done"
  /\ Len(Globals) = MaxGlobals
  /\ \A g \in Range(Globals) : hInfo[g].flags = {} /\ hInfo[g].module = "M"

\* the module-level variables outside the root module that were promoted
\* to the heap, in the order of their definitions
PromotedGlobals ==
  SelectSeq(Globals,
            LAMBDA g : /\ hInfo[g].module # "root"
                       /\ \/ hType[g].form = "heap"
                          \/ isWide(hType[g]) /\ hType[g].addr = "heap")

\* C13: when requireWideReferences() holds and N module-level variables
\* outside the root module were promoted, chpl__heapAllocateGlobals has one
\* heap allocation per promoted global, all of them in the block guarded by
\* 'node id == 0'; then one heap_register_global_var per promoted global,
\* with the indices 0..N-1 in the order of the allocations; then one
\* heap_broadcast_global_vars(N); and numGlobalsOnHeap is N.
C13_HeapAllocateGlobals ==
  (wpc = "done" /\ requireWideReferences /\ ~wAborted) =>
    LET body == haFns[Len(haFns)].body
        P == PromotedGlobals
        N == Len(P)
        conds == Positions(body, "cond")
    IN /\ Len(haFns) = 1
       /\ Cardinality(conds) = 1
       /\ \A c \in conds :
            /\ Tail(body[c].args) = [k \in 1..N |-> HereAlloc(P[k])]
            /\ c > 2
            /\ body[c - 1].op = "move"
            /\ body[c - 1].args[1].sym = body[c].args[1].sym
            /\ body[c - 1].args[2].op = "=="
            /\ body[c - 1].args[2].args[2].sym = IntSymbol(0)
            /\ body[c - 2] = Prim("move", <<body[c - 1].args[2].args[1],
                                            SymE(gNodeID, 0)>>)
            /\ Positions(body, "heap_register_global_var") = (c + 1)..(c + N)
            /\ \A k \in 1..N :
                 body[c + k].args = <<SymE(IntSymbol(k - 1), 0), SymE(P[k], 0)>>
            /\ Positions(body, "heap_broadcast_global_vars") = {c + N + 1}
            /\ body[c + N + 1].args = <<SymE(IntSymbol(N), 0)>>
       /\ \A k \in DOMAIN body :
            body[k].op = "move" => body[k].args[2].op # "here_alloc"
       /\ numGlobalsOnHeap = N

C13_Witness ==
  /\ wpc = "done"
  /\ requireWideReferences
  /\ ~wAborted
  /\ numGlobalsOnHeap = MaxGlobals

OneToOne(m) == \A k1, k2 \in DOMAIN m : m[k1] = m[k2] => k1 = k2

\* C14: wideClassMap and wideRefMap are one-to-one after buildWideClasses
\* and buildWideRefMap and after any later calls of
\* getOrMakeWideTypeDuringCodegen; no wide type is a key of either map; and
\* a request for a type that has a recorded wide type returns that type and
\* records nothing new.
C14_WideMapsOneToOne ==
  /\ [](/\ OneToOne(wideClassMap)
        /\ OneToOne(wideRefMap)
        /\ \A k \in DOMAIN wideClassMap \cup DOMAIN wideRefMap : ~isWide(k)
        /\ Range(wideTypes) \cap (DOMAIN wideClassMap \cup DOMAIN wideRefMap)
             = {})
  /\ [][(wCalls' = wCalls + 1 /\ ~wAborted') =>
          LET t == wRet'.type
          IN /\ wRet'.wide \in Range(wideTypes')
             /\ wRet'.wide \in {wideClassMap'[k] : k \in DOMAIN wideClassMap'}
                           \cup {wideRefMap'[k] : k \in DOMAIN wideRefMap'}
             /\ (Has(wideClassMap, t) \/ Has(wideRefMap, t)) =>
                  /\ wRet'.wide = (IF Has(wideClassMap, t)
                                   THEN wideClassMap[t] ELSE wideRefMap[t])
                  /\ UNCHANGED <<wideClassMap, wideRefMap, wideTypes>>]_vars

\* a type made by a first request was asked for again, after the maps had
\* been built
C14_Witness ==
  /\ wCalls = MaxCodegen
  /\ ~wAborted
  /\ requireWideReferences
  /\ wRet.type = NoWideT
  /\ Len(wideTypes) = Cardinality(DOMAIN wideClassMap)
                      + Cardinality(DOMAIN wideRefMap)
  /\ wideClassMap[NoWideT] = wideTypes[Len(wideTypes)]

\* widenClasses has run
WidenedClasses ==
  requireWideReferences /\ wpc \in {"refs", "widenRefs", "tail", "done"}

\* the five groups of definitions the claim names
C15_GroupsAsStated(d) ==
  \/ d.sym = "var" /\ d.immediate
  \/ d.parent = "type" /\ "wide_class" \in d.pflags
  \/ "super_class" \in d.flags
  \/ d.sym = "arg" /\ d.pflags \cap {"extern", "local_args"} # {}
  \/ d.sym = "fn" /\ "extern" \in d.flags

\* the groups with the flag local_args where the code reads it
C15_Groups(d) ==
  \/ d.sym = "var" /\ d.immediate
  \/ d.parent = "type" /\ "wide_class" \in d.pflags
  \/ "super_class" \in d.flags
  \/ d.sym = "arg" /\ "extern" \in d.pflags
  \/ d.sym = "fn" /\ d.flags \cap {"extern", "local_args"} # {}

\* C15 as stated: widenClasses sets the type of a definition to wide(C)
\* exactly when its type C has an entry in wideClassMap and the definition
\* is none of: an immediate literal, a field inside a wide layout, a
\* super-class field, a formal of an extern or local-args function, an
\* extern function's return type; those five groups keep the narrow type.
C15_AsStated ==
  WidenedClasses =>
    \A d \in DOMAIN gDefExprs :
      Has(wideClassMap, d.type) =>
        gDefExprs[d] = (IF C15_GroupsAsStated(d) THEN d.type
                        ELSE wideClassMap[d.type])

\* C15 as amended: widenClasses sets the type of a definition to wide(C)
\* exactly when its type C has an entry in wideClassMap and the definition
\* is none of: an immediate literal, a field inside a wide layout, a
\* super-class field, a formal of an extern function, the return type of an
\* extern or local-args function; those five groups keep the narrow type.
C15_WidenedExceptGroups ==
  WidenedClasses =>
    /\ \A d \in DOMAIN gDefExprs :
         Has(wideClassMap, d.type) =>
           gDefExprs[d] = (IF C15_Groups(d) THEN d.type
                           ELSE wideClassMap[d.type])
    /\ \A y \in DOMAIN hType :
         ~Has(wideClassMap, hType[y])

\* a class-typed formal of a local-args function has been widened, and the
\* class-typed return type of such a function has not
C15_Witness ==
  /\ WidenedClasses
  /\ \E d \in DOMAIN gDefExprs :
       /\ d.sym = "arg" /\ d.pflags = {"local_args"} /\ d.type = ClassT
       /\ gDefExprs[d] = wideClassMap[ClassT]
  /\ \E d \in DOMAIN gDefExprs :
       /\ d.sym = "fn" /\ d.flags = {"local_args"} /\ d.type = ClassT
       /\ gDefExprs[d] = ClassT

(***************************************************************************)
(* handleLocalBlocks.                                                      *)
(*                                                                         *)
(* A function is [name, flags, retType, body]; its name is a base name     *)
(* with a number of prefixes "_local_".  A body is a list of calls of      *)
(* resolved functions that ends with the return of a symbol; it holds no   *)
(* primitive that communicates, so that localizeCall leaves it alone.      *)
(***************************************************************************)

\* the largest number of functions
MaxLocalFns == 2

\* a wide class and a wide reference that insertWideReferences made
WideClassT == newWideType("wide_class", ClassT, 1)
WideRefT == newWideType("wide", refType(IntT), 2)

\* the symbol function f returns, and the temporary "local_<name>" for it
RetSym(f) == Sym("ret", f, 0)
LocalTmp(f) == Sym("local_ret", f, 0)

\* a call of the resolved function f
FnCall(f) == [op |-> "call", fn |-> f, sym |-> NoSym, id |-> 0, args |-> <<>>]
Return(sym) == Prim("return", <<SymE(sym, 0)>>)

\* astr("_local_", fn->name)
LocalName(name) == [name EXCEPT !.prefix = @ + 1]

\* fn->copy() for the function with id f, the copy having id n: the
\* symbols of the body are copied, and a call of fn in it calls the copy
copyFn(fn, f, n) ==
  [fn EXCEPT !.body = [k \in DOMAIN fn.body |->
                         IF fn.body[k].op = "call" /\ fn.body[k].fn = f
                         THEN FnCall(n)
                         ELSE IF fn.body[k].op = "return"
                         THEN Return(RetSym(n))
                         ELSE fn.body[k]]]

\* insertLocalTemp(expr) for operand i of statement k, var the new
\* temporary
insertLocalTemp(stmts, k, i, var, noChecks) ==
  LET se == stmts[k].args[i]
  IN SubSeq(stmts, 1, k - 1)
     \o (IF noChecks THEN <<>>
         ELSE <<Prim("local_check", <<SymE(se.sym, 0)>>)>>)
     \o << DefE(var),
           Prim("move", <<SymE(var, 0), SymE(se.sym, 0)>>),
           [stmts[k] EXCEPT !.args[i] = SymE(var, 0)] >>
     \o SubSeq(stmts, k + 1, Len(stmts))

\* a mutant: the return of a wide class is narrowed too
returnsWide_anyWide(t) == isWide(t)

\* local->retType->symbol->hasFlag(FLAG_WIDE)
returnsWide(t) == t.form = "wide"

\* a mutant: the clone is not flagged
cloneFlags_same(flags) == flags

\* local->addFlag(FLAG_LOCAL_FN)
cloneFlags(flags) == flags \cup {"local_fn"}

\* the statements of a queued block: a local block or the body of a clone
StmtsOf(ls, q) ==
  IF q.kind = "block" THEN ls.blocks[q.id].body ELSE ls.fns[q.id].body

\* call->baseExpr->replace(new SymExpr(f)) for statement k of the block
retargetCall(ls, q, k, f) ==
  IF q.kind = "block" THEN [ls EXCEPT !.blocks[q.id].body[k].fn = f]
  ELSE [ls EXCEPT !.fns[q.id].body[k].fn = f]

\* a mutant: the clone is not cached as its own local form
cacheLocal_originalOnly(cache, fn, n) == Put(cache, fn, n)

\* cache.put(fn, local); cache.put(local, local);
cacheLocal(cache, fn, n) == Put(Put(cache, fn, n), n, n)

\* the clone of function fn for a local block: the copy, flagged and
\* renamed, queued and cached, its return narrowed
cloneForLocal(ls, fn, noChecks) ==
  LET n == Len(ls.fns) + 1
      copy == copyFn(ls.fns[fn], fn, n)
      tail == Len(copy.body)
      wide == returnsWide(copy.retType)
      local == [copy EXCEPT
                  !.flags = cloneFlags(@),
                  !.name = LocalName(@),
                  !.body = IF wide
                           THEN insertLocalTemp(@, tail, 1, LocalTmp(n),
                                                noChecks)
                           ELSE @,
                  !.retType = IF wide THEN addrType(@) ELSE @]
  IN [ls EXCEPT
        !.fns = Append(@, local),
        !.queue = Append(@, [kind |-> "fn", id |-> n]),
        !.cache = cacheLocal(@, fn, n),
        !.types = IF wide
                  THEN @ @@ (RetSym(n) :> copy.retType)
                         @@ (LocalTmp(n) :> addrType(copy.retType))
                  ELSE @ @@ (RetSym(n) :> copy.retType)]

\* forv_Vec(CallExpr, call, calls) from statement k of the queued block q
RECURSIVE localizeCalls(_, _, _, _)
localizeCalls(ls, q, k, noChecks) ==
  IF k > Len(StmtsOf(ls, q)) THEN ls
  ELSE LET call == StmtsOf(ls, q)[k]
       IN IF call.op # "call" THEN localizeCalls(ls, q, k + 1, noChecks)
          ELSE IF Has(ls.cache, call.fn)
          THEN localizeCalls(retargetCall(ls, q, k, ls.cache[call.fn]),
                             q, k + 1, noChecks)
          ELSE IF "extern" \in ls.fns[call.fn].flags
          THEN localizeCalls(ls, q, k + 1, noChecks)
          ELSE localizeCalls(
                 retargetCall(cloneForLocal(ls, call.fn, noChecks), q, k,
                              Len(ls.fns) + 1),
                 q, k + 1, noChecks)

\* the first loop of handleLocalBlocks: the local blocks are queued
queueLocalBlocks ==
  /\ lpc = "start"
  /\ lQueue' = [k \in 1..Cardinality({b \in DOMAIN lBlocks : lBlocks[b].local})
                  |-> [kind |-> "block",
                       id |-> SelectSeq([b \in DOMAIN lBlocks |-> b],
                                        LAMBDA b : lBlocks[b].local)[k]]]
  /\ lpc' = IF lQueue' = <<>> THEN "done" ELSE "run"
  /\ UNCHANGED <<lFns, lBlocks, lType, lIdx, lCache, fNoLocalChecks,
                 bundleVars, heapVars, freeState, wideState, endState,
                 closureState>>

\* one iteration of forv_Vec(BlockStmt, block, queue)
localizeBlock ==
  /\ lpc = "run"
  /\ lIdx <= Len(lQueue)
  /\ \E ls \in {localizeCalls([fns |-> lFns, blocks |-> lBlocks,
                               cache |-> lCache, queue |-> lQueue,
                               types |-> lType],
                              lQueue[lIdx], 1, fNoLocalChecks)} :
       /\ lFns' = ls.fns
       /\ lBlocks' = ls.blocks
       /\ lCache' = ls.cache
       /\ lQueue' = ls.queue
       /\ lType' = ls.types
  /\ lIdx' = lIdx + 1
  /\ lpc' = IF lIdx' > Len(lQueue') THEN "done" ELSE "run"
  /\ UNCHANGED <<fNoLocalChecks, bundleVars, heapVars, freeState, wideState,
                 endState, closureState>>

\* what a function is: extern, or with a return type and at most one call
\* in its body
LocalFnChoices(f, n) ==
  { [name |-> [prefix |-> 0, base |-> f], flags |-> {"extern"},
     retType |-> IntT, body |-> <<>>] }
  \cup { [name |-> [prefix |-> 0, base |-> f], flags |-> {},
          retType |-> t, body |-> calls \o <<Return(RetSym(f))>>] :
           t \in {IntT, WideClassT, WideRefT},
           calls \in {<<>>} \cup {<<FnCall(g)>> : g \in 1..n} }

\* the calls of some of the functions 1..n, once each or all a second time
CallSeqs(n) ==
  UNION { LET cs == SelectSeq([g \in 1..n |-> FnCall(g)],
                              LAMBDA c : c.fn \in fs)
          IN {cs, cs \o cs} : fs \in SUBSET (1..n) }

\* the program when handleLocalBlocks starts: one local block, and one
\* block that is not local
LocalInit ==
  /\ \E n \in 1..MaxLocalFns :
       /\ lFns \in [1..n -> UNION {LocalFnChoices(f, n) : f \in 1..n}]
       /\ \A f \in 1..n : lFns[f].name.base = f
       /\ \E calls \in CallSeqs(n) :
            lBlocks = << [local |-> TRUE, body |-> calls],
                         [local |-> FALSE, body |-> <<FnCall(1)>>] >>
  /\ lType = [y \in {RetSym(f) : f \in DOMAIN lFns} |->
                lFns[y.a].retType]
  /\ lQueue = <<>>
  /\ lIdx = 1
  /\ lCache = <<>>
  /\ fNoLocalChecks \in BOOLEAN
  /\ lpc = "start"

InitLocal ==
  /\ LocalInit /\ BundleIdle /\ HeapIdle /\ FreeIdle /\ WideIdle /\ EndIdle
  /\ ClosureIdle

NextLocal ==
  \/ queueLocalBlocks
  \/ localizeBlock

SpecLocal == InitLocal /\ [][NextLocal]_vars

(***************************************************************************)
(* Properties of handleLocalBlocks.                                        *)
(***************************************************************************)

\* the functions cloned for a local block, and the function each is the
\* clone of
LocalClones == {lCache[f] : f \in DOMAIN lCache}
OriginalOf(c) == CHOOSE f \in DOMAIN lCache : lCache[f] = c /\ f # c

\* the statement lists the claim is about: the local blocks and the bodies
\* of the clones
LocalizedStmts ==
  {lBlocks[b].body : b \in {b \in DOMAIN lBlocks : lBlocks[b].local}}
  \cup {lFns[c].body : c \in LocalClones}

\* C16: after handleLocalBlocks, every call in a local block or in the body
\* of a function cloned for a local block (transitively) whose callee is
\* resolved and not extern calls a clone whose name starts with "_local_"
\* and that is flagged local_fn.
C16_CallsTargetClones ==
  lpc = "done" =>
    \A stmts \in LocalizedStmts :
      \A k \in DOMAIN stmts :
        (stmts[k].op = "call" /\ "extern" \notin lFns[stmts[k].fn].flags) =>
          /\ lFns[stmts[k].fn].name.prefix = 1
          /\ "local_fn" \in lFns[stmts[k].fn].flags
          /\ stmts[k].fn \in LocalClones

\* every function was cloned, and a clone calls itself
C16_Witness ==
  /\ lpc = "done"
  /\ Len(lFns) = 2 * MaxLocalFns
  /\ \E c \in LocalClones : FnCall(c) \in Range(lFns[c].body)
  /\ \E c \in LocalClones : \E g \in LocalClones :
       g # c /\ FnCall(g) \in Range(lFns[c].body)

\* the return of clone c was rewritten to return a narrow local temporary
ReturnNarrowed(c) ==
  LET b == lFns[c].body
      t == Len(b)
      narrow == addrType(lFns[OriginalOf(c)].retType)
  IN /\ b[t] = Return(LocalTmp(c))
     /\ b[t - 1] = Prim("move", <<SymE(LocalTmp(c), 0), SymE(RetSym(c), 0)>>)
     /\ lType[LocalTmp(c)] = narrow
     /\ ~isWide(narrow)
     /\ lFns[c].retType = narrow

\* the return of clone c is the copy of the return of its original
ReturnKept(c) ==
  /\ lFns[c].body[Len(lFns[c].body)] = Return(RetSym(c))
  /\ lFns[c].retType = lFns[OriginalOf(c)].retType

\* C17 as stated: whenever a function cloned for a local block returns a
\* wide type (a wide class or a wide reference), the return of the clone is
\* rewritten to return a narrow local temporary and the declared return
\* type becomes the type of the field 'addr'.
C17_AsStated ==
  \A c \in LocalClones :
    isWide(lFns[OriginalOf(c)].retType) => ReturnNarrowed(c)

\* C17 as amended: whenever a function cloned for a local block returns a
\* wide reference, the return of the clone is rewritten to return a narrow
\* local temporary and the declared return type becomes the type of the
\* field 'addr'; a clone of a function that returns a wide class keeps its
\* return statement and its wide return type.
C17_WideRefReturnNarrowed ==
  \A c \in LocalClones :
    IF lFns[OriginalOf(c)].retType.form = "wide" THEN ReturnNarrowed(c)
    ELSE ReturnKept(c)

C17_Witness ==
  /\ lpc = "done"
  /\ \E c \in LocalClones : lFns[OriginalOf(c)].retType = WideRefT
  /\ \E c \in LocalClones : lFns[OriginalOf(c)].retType = WideClassT

(***************************************************************************)
(* insertEndCounts.                                                        *)
(*                                                                         *)
(* The functions are numbered; function chpl_gen_main is the first.  A     *)
(* function holds at most one get_end_count or set_end_count, and the      *)
(* calls are resolved calls between the functions, in the order of         *)
(* gCallExprs.  The primitives all have the one end-count class as type.   *)
(***************************************************************************)
\* the largest number of functions
MaxEndFns == 2
\* the largest number of resolved calls
MaxEndCalls == 2

chpl_gen_main == 1

EndCountT == [form |-> "class", of |-> "_EndCount"]

\* formal i of function f, and actual i of call k
EFormal(f, i) == Sym("eformal", f, i)
EActual(k, i) == Sym("eactual", k, i)
\* the temp _endCount of function f, and its formal _endCount
EndCountVar(f) == Sym("_endCount", f, 0)
EndCountArg(f) == Sym("_endCount", f, 1)
\* the argument of the set_end_count of function f
EndCountValue(f) == Sym("endCountValue", f, 0)

\* insertEndCount(fn, endCountType, queue, endCountMap)
insertEndCount(es, fn, endCountType) ==
  LET var == EndCountVar(fn)
      arg == EndCountArg(fn)
  IN IF fn = chpl_gen_main
     THEN [es EXCEPT !.fns[fn].head = <<DefE(var)>> \o @,
                     !.types = Put(@, var, endCountType),
                     !.map = Put(@, fn, var),
                     !.queue = Append(@, fn)]
     ELSE [es EXCEPT !.fns[fn].formals = Append(@, arg),
                     !.fns[fn].head =
                        <<DefE(var),
                          Prim("move", <<SymE(var, 0), SymE(arg, 0)>>)>> \o @,
                     !.types = Put(Put(@, arg, endCountType), var,
                                   endCountType),
                     !.map = Put(@, fn, var),
                     !.queue = Append(@, fn)]

\* a mutant: the map is not looked up
ensureEndCount_always(es, pfn, endCountType) ==
  insertEndCount(es, pfn, endCountType)

\* if (!endCountMap.get(pfn)) insertEndCount(pfn, ...)
ensureEndCount(es, pfn, endCountType) ==
  IF Has(es.map, pfn) THEN es ELSE insertEndCount(es, pfn, endCountType)

\* what replaces a get_end_count or set_end_count of a function whose
\* end-count variable is var
replacePrim(call, var) ==
  IF call.op = "get_end_count"
  THEN SymE(var, 0)
  ELSE Prim("move", <<SymE(var, 0), call.args[1]>>)

\* the type the sweep passes on: call->typeInfo() of a get_end_count, and
\* call->get(1)->typeInfo() of a set_end_count
primEndCountType(call) == EndCountT

\* the first loop of insertEndCounts, from primitive k on
RECURSIVE sweepPrims(_, _)
sweepPrims(es, k) ==
  IF k > Len(es.prims) THEN es
  ELSE LET call == es.prims[k].call
       IN IF call.op \in {"get_end_count", "set_end_count"}
          THEN LET pfn == es.prims[k].fn
                   es1 == ensureEndCount(es, pfn, primEndCountType(call))
               IN sweepPrims([es1 EXCEPT !.prims[k].call =
                                           replacePrim(call, es1.map[pfn])],
                             k + 1)
          ELSE sweepPrims(es, k + 1)

\* the symbol appended to a call of fn made in pfn
tailActual_callee(map, pfn, fn) == map[fn]
tailActual(map, pfn, fn) == map[pfn]

\* forv_Vec(CallExpr, call, *fn->calledBy), from call k on
RECURSIVE threadCalls(_, _, _)
threadCalls(es, fn, k) ==
  IF k > Len(es.calls) THEN es
  ELSE IF es.calls[k].callee # fn THEN threadCalls(es, fn, k + 1)
  ELSE LET endCountType == es.types[es.map[fn]]
           pfn == es.calls[k].caller
           es1 == ensureEndCount(es, pfn, endCountType)
       IN threadCalls([es1 EXCEPT !.calls[k].actuals =
                                    Append(@, tailActual(es1.map, pfn, fn))],
                      fn, k + 1)

EndState ==
  [fns |-> eFns, calls |-> eCalls, prims |-> ePrims, types |-> eType,
   map |-> endCountMap, queue |-> eQueue]

\* forv_Vec(CallExpr, call, gCallExprs): the primitives are replaced
sweepEndCountPrims ==
  /\ epc = "sweep"
  /\ \E es \in {sweepPrims(EndState, 1)} :
       /\ eFns' = es.fns
       /\ ePrims' = es.prims
       /\ eType' = es.types
       /\ endCountMap' = es.map
       /\ eQueue' = es.queue
  /\ epc' = IF eQueue' = <<>> THEN "done" ELSE "thread"
  /\ UNCHANGED <<eCalls, eIdx, bundleVars, heapVars, freeState, wideState,
                 localState, closureState>>

\* one iteration of forv_Vec(FnSymbol, fn, queue)
threadEndCount ==
  /\ epc = "thread"
  /\ eIdx <= Len(eQueue)
  /\ \E es \in {threadCalls(EndState, eQueue[eIdx], 1)} :
       /\ eFns' = es.fns
       /\ eCalls' = es.calls
       /\ eType' = es.types
       /\ endCountMap' = es.map
       /\ eQueue' = es.queue
  /\ eIdx' = eIdx + 1
  /\ epc' = IF eIdx' > Len(eQueue') THEN "done" ELSE "thread"
  /\ UNCHANGED <<ePrims, bundleVars, heapVars, freeState, wideState,
                 localState, closureState>>

\* the primitive of a function, if any
EndPrimChoices(f) ==
  { Prim("get_end_count", <<>>),
    Prim("set_end_count", <<SymE(EndCountValue(f), 0)>>),
    Prim("other", <<>>) }

\* the program when insertEndCounts starts: each call has an actual per
\* formal of its callee
EndInit ==
  /\ \E n \in 1..MaxEndFns :
       /\ \E nf \in [1..n -> 0..1] :
            /\ nf[chpl_gen_main] = 0
            /\ eFns = [f \in 1..n |->
                         [formals |-> [i \in 1..nf[f] |-> EFormal(f, i)],
                          head |-> <<>>]]
       /\ \E nc \in 0..MaxEndCalls :
            \E cs \in [1..nc -> (1..n) \X (1..n)] :
              eCalls = [k \in 1..nc |->
                          [caller |-> cs[k][1], callee |-> cs[k][2],
                           actuals |->
                             [i \in 1..Len(eFns[cs[k][2]].formals) |->
                                EActual(k, i)]]]
       /\ \E ps \in [1..n -> UNION {EndPrimChoices(f) : f \in 1..n}] :
            /\ \A f \in 1..n : ps[f] \in EndPrimChoices(f)
            /\ ePrims = [f \in 1..n |-> [fn |-> f, call |-> ps[f]]]
  /\ eType = <<>>
  /\ endCountMap = <<>>
  /\ eQueue = <<>>
  /\ eIdx = 1
  /\ epc = "sweep"

InitEnd ==
  /\ EndInit /\ BundleIdle /\ HeapIdle /\ FreeIdle /\ WideIdle /\ LocalIdle
  /\ ClosureIdle

NextEnd ==
  \/ sweepEndCountPrims
  \/ threadEndCount

SpecEnd == InitEnd /\ [][NextEnd]_vars

(***************************************************************************)
(* Properties of insertEndCounts.                                          *)
(***************************************************************************)

\* the actuals call k had when insertEndCounts started
OriginalActuals(k) ==
  [i \in 1..Cardinality({a \in Range(eCalls[k].actuals) :
                           a.k = "eactual"}) |-> EActual(k, i)]

ActualsFormalTypes == {Ty(v, r) : v \in {"plain", "record"}, r \in BOOLEAN}

\* the type of an actual that is not of the type t of its formal
otherType(t) == [t EXCEPT !.ref = ~@]

\* the call sites: at call site c the actual at position differs[c], if
\* any, is not of the type of its formal
InitCallsDiffering(formals, differs) ==
  [c \in DOMAIN differs |->
     [fcall |-> [i \in DOMAIN formals |->
                   [sym |-> Actual(c, i),
                    type |-> IF i = differs[c] THEN otherType(formals[i])
                             ELSE formals[i]]],
      pre |-> <<>>, post |-> <<>>, removed |-> FALSE,
      tempcType |-> Ty("plain", FALSE)]]

BundleInitActuals ==
  /\ fnFlags \in TaskKinds
  /\ \E n \in 0..MaxFormals :
       /\ "on" \in fnFlags => n >= 1
       /\ origFormals \in [1..n -> ActualsFormalTypes]
  /\ "on" \in fnFlags => origFormals[1] = LocaleTy
  /\ fnFormals = [i \in DOMAIN origFormals |->
                    [sym |-> Formal(i), type |-> origFormals[i]]]
  /\ \E refsLocale \in BOOLEAN :
       /\ "on" \notin fnFlags => refsLocale
       /\ fnBody = InitBody(Len(origFormals), refsLocale)
  /\ \E ncalls \in 1..MaxCalls :
       \E differs \in [1..ncalls -> 0..Len(origFormals)] :
         calledBy = InitCallsDiffering(origFormals, differs)
  /\ processed = {}
  /\ baData = bundleArgsFnDataInit
  /\ modTypes = <<>>
  /\ modFns = <<>>
  /\ pc = "bundling"
  /\ aborted = FALSE

InitActuals == BundleInitActuals /\ HeapIdle /\ FreeIdle /\ RestIdle

SpecActuals == InitActuals /\ [][Next]_vars

\* the types of the actuals of call site c
ActualTypes(c) ==
  [i \in DOMAIN calledBy[c].fcall |-> calledBy[c].fcall[i].type]

\* C20 as stated: the bundle class of the task function has exactly one
\* field per formal, in formal order, and the type of field i is the
\* declared type of formal i, whatever the types of the actuals and
\* whichever call site is processed first.
C20_AsStated ==
  \A k \in DOMAIN modTypes :
    /\ Len(modTypes[k].fields) = Len(origFormals)
    /\ \A i \in DOMAIN origFormals : modTypes[k].fields[i] = origFormals[i]

\* C20: the bundle class of the task function has exactly one field per
\* formal, in formal order; it is made when the first call site is
\* processed, and the type of field i is the type of actual i of that call
\* site, hence the declared type of formal i when the actual is of that type.
C20_FieldsFromFirstCall ==
  /\ [](\A k \in DOMAIN modTypes :
          Len(modTypes[k].fields) = Len(origFormals))
  /\ [][modTypes' # modTypes =>
          \E c \in processed' \ processed :
            /\ processed = {}
            /\ modTypes = <<>>
            /\ Len(modTypes') = 1
            /\ modTypes'[1].fields = ActualTypes(c)
            /\ \A i \in DOMAIN origFormals :
                 calledBy[c].fcall[i].type = origFormals[i]
                   => modTypes'[1].fields[i] = origFormals[i]]_vars

\* every call site is bundled, there are several, and a field of the bundle
\* class is not of the type of its formal
C20_Witness ==
  /\ pc = "done"
  /\ Cardinality(processed) = MaxCalls
  /\ Len(origFormals) = MaxFormals
  /\ \E i \in DOMAIN origFormals : modTypes[1].fields[i] # origFormals[i]
  /\ \E i \in DOMAIN origFormals : modTypes[1].fields[i] = origFormals[i]

(***************************************************************************)
(* insertWideReferences entered a second time.                             *)
(*                                                                         *)
(* Each run of insertWideReferences starts with heapAllocateGlobalsHead,   *)
(* so the number of functions chpl__heapAllocateGlobals is the number of   *)
(* runs started.  wideClassMap and wideRefMap are file-level maps and keep *)
(* their entries between the runs; parallel(), which runs in between,      *)
(* neither removes a function nor touches the two maps, and its own        *)
(* rewrites are left out here.                                             *)
(***************************************************************************)
\* the first run is over and the pass is started again
runPassAgain ==
  /\ wpc = "done"
  /\ ~wAborted
  /\ Len(haFns) = 1
  /\ wpc' = "head"
  /\ UNCHANGED <<fLocal, commFullSegment, gDefExprs, haFns, numGlobalsOnHeap,
                 wideClassMap, wideRefMap, wideTypes, gHeapVars, wCalls, wRet,
                 wAborted, bundleVars, heapVars, freeState, laterState>>

NextTwice ==
  \/ findHeapVarsAndRefs
  \/ promoteVar
  \/ heapAllocateGlobalsHead
  \/ buildWideClasses
  \/ widenClasses
  \/ buildWideRefMap
  \/ widenRefs
  \/ heapAllocateGlobalsTail
  \/ runPassAgain

SpecTwice == InitGlobals /\ [][NextTwice]_vars

\* the second run has been started
SecondRun == (wpc = "head" /\ Len(haFns) = 1) \/ Len(haFns) > 1

\* C18 as stated: running the pass a second time on its own output is a
\* no-op: no step of the second run ends in an internal error, adds a
\* function chpl__heapAllocateGlobals or a wide type, or changes the type of
\* a declaration.
C18_SecondRunNoOp ==
  [][SecondRun =>
       /\ ~wAborted'
       /\ haFns' = haFns
       /\ wideTypes' = wideTypes
       /\ wideClassMap' = wideClassMap
       /\ wideRefMap' = wideRefMap
       /\ gDefExprs' = gDefExprs]_vars

\* what the second run does: with wide references it stops on the
\* assertion that wideClassMap is empty, after a second function
\* chpl__heapAllocateGlobals has been added
C18_SecondRunStops ==
  /\ SecondRun
  /\ requireWideReferences
  /\ Len(haFns) = 2
  /\ wAborted

\* without wide references the second run ends, and has added a second
\* function chpl__heapAllocateGlobals
C18_SecondRunAddsFunction ==
  /\ ~requireWideReferences
  /\ wpc = "done"
  /\ Len(haFns) = 2
  /\ ~wAborted

(***************************************************************************)
(* Further properties of the task-argument bundler.                        *)
(***************************************************************************)

\* the statements of call site c that set a field of the bundle
SetMembers(c) ==
  SelectSeq(SiteStmts(c), LAMBDA s : s.op = "set_member")

\* the task function is neither flagged begin nor flagged both on and
\* non_blocking
BlockingTask ==
  /\ "begin" \notin fnFlags
  /\ ~("on" \in fnFlags /\ "non_blocking" \in fnFlags)

\* C21: for a call of a task function that is neither flagged begin nor
\* flagged both on and non_blocking, bundling inserts no auto-copy at the
\* call site and no auto-destroy in the task function, and every field of
\* the bundle is set to the original actual, whatever the actuals' types.
C21_NoCopyForBlockingTasks ==
  BlockingTask =>
    /\ CountOp(fnBody, "autoDestroy") = 0
    /\ CountOp(fnBody, "move_deref") = 0
    /\ \A c \in processed :
         /\ \A op \in {"autoCopy", "move_autoCopy", "move_deref"} :
              CountOp(SiteStmts(c), op) = 0
         /\ SetMembers(c) =
              [i \in DOMAIN origFormals |->
                 Stmt("set_member", <<Tempc(c), Field(i), Actual(c, i)>>)]

\* a cobegin/coforall or blocking 'on' function with a reference-counted
\* formal and a record formal has had all its call sites bundled
C21_Witness ==
  /\ pc = "done"
  /\ BlockingTask
  /\ "on" \in fnFlags
  /\ Cardinality(processed) = MaxCalls
  /\ \E i \in DOMAIN origFormals : origFormals[i].val \in {"refcounted", "record"}

(***************************************************************************)
(* The closure loop of makeHeapAllocations.                                *)
(*                                                                         *)
(* One task function with a reference formal and a value formal, two       *)
(* reference variables and two value variables.  A reference variable has  *)
(* at most one definition; the task function has calls that pass a         *)
(* reference for its reference formal, its own formal when it calls        *)
(* itself.                                                                 *)
(***************************************************************************)
\* the largest number of calls of the task function
MaxClosureCalls == 1

\* the reference formal and the value formal of the task function
CArg == Sym("carg", 1, 0)
CValArg == Sym("cvalarg", 1, 0)
\* the reference variables and the value variables
CRef(i) == Sym("cref", i, 0)
CVal(i) == Sym("cval", i, 0)

\* sym->type->symbol->hasFlag(FLAG_REF)
closureIsRef(sym) == sym.k \in {"carg", "cref"}

\* gDefExprs, in order
closureDefExprs == <<CArg, CValArg, CRef(1), CRef(2), CVal(1), CVal(2)>>

MemberPrims ==
  {"get_member", "get_member_value", "get_svec_member",
   "get_svec_member_value"}

\* a definition of a reference variable: parent is what def->parentExpr is
\* (a move, another call, or no call); rhs is what call->get(2) is (a call,
\* a symbol, or neither); prim is the primitive of a call rhs ("call" for a
\* call that is no primitive named here); base is rhs->get(1), or the
\* symbol of a symbol rhs; resultRef says whether the type of the rhs is a
\* reference
ClosureDef(parent, rhs, prim, base, resultRef) ==
  [parent |-> parent, rhs |-> rhs, prim |-> prim, base |-> base,
   resultRef |-> resultRef]

\* if (!refSet.set_in(s)) { refSet.set_add(s); refVec.add(s); }
addRef(cs, s) ==
  IF s \in cs.refSet THEN cs
  ELSE [cs EXCEPT !.refSet = @ \cup {s}, !.refVec = Append(@, s)]

\* a mutant: the symbol is appended without looking it up in varSet
addVar_unchecked(cs, s) ==
  [cs EXCEPT !.varSet = @ \cup {s}, !.varVec = Append(@, s)]

\* if (!varSet.set_in(s)) { varSet.set_add(s); varVec.add(s); }
addVar(cs, s) ==
  IF s \in cs.varSet THEN cs
  ELSE [cs EXCEPT !.varSet = @ \cup {s}, !.varVec = Append(@, s)]

\* a mutant: the base of a member access goes to refSet when the access
\* yields a reference
memberBaseIsRef_result(def) == def.resultRef

\* whether the base of a member access goes to refSet:
\* se->var->type->symbol->hasFlag(FLAG_REF)
memberBaseIsRef(def) == closureIsRef(def.base)

\* whether INT_ASSERT(rhs->var->type->symbol->hasFlag(FLAG_REF)) fails
symbolRhsAsserted(def) == ~closureIsRef(def.base)

\* the body of for_defs(def, defMap, var) for one definition
closeDef(cs, def) ==
  IF def.parent = "none" THEN [cs EXCEPT !.aborted = TRUE]
  ELSE IF def.parent # "move" THEN cs
  ELSE IF def.rhs = "call"
  THEN IF def.prim = "addr_of" THEN addVar(cs, def.base)
       ELSE IF def.prim \in MemberPrims
       THEN IF memberBaseIsRef(def) THEN addRef(cs, def.base)
            ELSE addVar(cs, def.base)
       ELSE cs
  ELSE IF def.rhs = "sym"
  THEN IF symbolRhsAsserted(def) THEN [cs EXCEPT !.aborted = TRUE]
       ELSE addRef(cs, def.base)
  ELSE [cs EXCEPT !.aborted = TRUE]

\* for_defs(def, defMap, var), from definition k on; a failed assertion
\* ends the compilation
RECURSIVE closeDefs(_, _, _)
closeDefs(cs, defs, k) ==
  IF k > Len(defs) \/ cs.aborted THEN cs
  ELSE closeDefs(closeDef(cs, defs[k]), defs, k + 1)

\* forv_Vec(CallExpr, call, *fn->calledBy) for the reference formal
RECURSIVE closeCalls(_, _, _)
closeCalls(cs, calls, k) ==
  IF k > Len(calls) \/ cs.aborted THEN cs
  ELSE IF ~closureIsRef(calls[k]) THEN [cs EXCEPT !.aborted = TRUE]
  ELSE closeCalls(addRef(cs, calls[k]), calls, k + 1)

ClosureSets ==
  [refSet |-> refSet, refVec |-> refVec, varSet |-> varSet,
   varVec |-> closureVarVec, aborted |-> cAborted]

\* whether findBlockRefActuals looks at the formals of the function
blockRefActualsOf(flags, needed) ==
  \/ "begin" \in flags
  \/ "on" \in flags /\ (needed \/ "non_blocking" \in flags)

\* findBlockRefActuals: the reference formals of the task function
findBlockRefActuals ==
  /\ cpc = "block"
  /\ IF blockRefActualsOf(cFlags, cNeedHeapVars)
     THEN LET refs == SelectSeq(<<CArg, CValArg>>, closureIsRef)
          IN /\ refSet' = refSet \cup Range(refs)
             /\ refVec' = refVec \o refs
     ELSE UNCHANGED <<refSet, refVec>>
  /\ cpc' = "find"
  /\ UNCHANGED <<cFlags, cNeedHeapVars, cCoforall, cDefMap, cCalledBy, varSet,
                 closureVarVec, cIdx, cAborted, bundleVars, heapVars,
                 freeState, wideState, localState, endState>>

\* findHeapVarsAndRefs for the coforall index variables, none of which is
\* of primitive type
findCoforallIndexVars ==
  /\ cpc = "find"
  /\ LET flagged == SelectSeq(closureDefExprs, LAMBDA s : s \in cCoforall)
         refs == SelectSeq(flagged, closureIsRef)
         vals == SelectSeq(flagged, LAMBDA s : ~closureIsRef(s))
     IN /\ refSet' = refSet \cup Range(refs)
        /\ refVec' = refVec \o refs
        /\ varSet' = varSet \cup Range(vals)
        /\ closureVarVec' = closureVarVec \o vals
  /\ cpc' = IF refVec' = <<>> THEN "done" ELSE "close"
  /\ UNCHANGED <<cFlags, cNeedHeapVars, cCoforall, cDefMap, cCalledBy, cIdx,
                 cAborted, bundleVars, heapVars, freeState, wideState,
                 localState, endState>>

\* one iteration of forv_Vec(Symbol, ref, refVec)
closeRef ==
  /\ cpc = "close"
  /\ cIdx <= Len(refVec)
  /\ LET ref == refVec[cIdx]
     IN \E cs \in {IF ref.k = "carg"
                   THEN closeCalls(ClosureSets, cCalledBy, 1)
                   ELSE closeDefs(ClosureSets, cDefMap[ref], 1)} :
          /\ refSet' = cs.refSet
          /\ refVec' = cs.refVec
          /\ varSet' = cs.varSet
          /\ closureVarVec' = cs.varVec
          /\ cAborted' = cs.aborted
          /\ cIdx' = cIdx + 1
          /\ cpc' = IF cs.aborted THEN "aborted"
                    ELSE IF cIdx' > Len(cs.refVec) THEN "done"
                    ELSE "close"
  /\ UNCHANGED <<cFlags, cNeedHeapVars, cCoforall, cDefMap, cCalledBy,
                 bundleVars, heapVars, freeState, wideState, localState,
                 endState>>

\* the definitions a reference variable may have
ClosureDefChoices ==
  { ClosureDef("move", "call", "addr_of", CVal(i), TRUE) : i \in 1..2 }
  \cup { ClosureDef("move", "call", prim, base, TRUE) :
           prim \in {"get_member", "get_svec_member"},
           base \in {CVal(1), CRef(1)} }
  \cup { ClosureDef("move", "call", prim, base, isRef) :
           prim \in {"get_member_value", "get_svec_member_value"},
           base \in {CVal(1), CRef(1)}, isRef \in BOOLEAN }
  \cup { ClosureDef("move", "call", "call", CVal(1), TRUE) }
  \cup { ClosureDef("move", "sym", "", s, closureIsRef(s)) :
           s \in {CRef(1), CRef(2), CVal(1)} }
  \cup { ClosureDef("move", "other", "", CVal(1), FALSE),
         ClosureDef("call", "", "", CVal(1), FALSE),
         ClosureDef("none", "", "", CVal(1), FALSE) }

ClosureInit ==
  /\ cFlags \in {{"begin"}, {"on"}, {"on", "non_blocking"}}
  /\ cNeedHeapVars \in BOOLEAN
  /\ "on" \notin cFlags \/ "non_blocking" \in cFlags => ~cNeedHeapVars
  /\ cCoforall \in SUBSET {CRef(1), CVal(1)}
  /\ \E ds \in [1..2 -> {<<>>} \cup {<<d>> : d \in ClosureDefChoices}] :
       cDefMap = [r \in {CRef(1), CRef(2)} |-> ds[r.a]]
  /\ \E n \in 0..MaxClosureCalls :
       cCalledBy \in [1..n -> {CRef(1), CRef(2), CArg}]
  /\ refSet = {}
  /\ refVec = <<>>
  /\ varSet = {}
  /\ closureVarVec = <<>>
  /\ cIdx = 1
  /\ cpc = "block"
  /\ cAborted = FALSE

InitClosure ==
  /\ ClosureInit /\ BundleIdle /\ HeapIdle /\ FreeIdle /\ WideIdle
  /\ LocalIdle /\ EndIdle

NextClosure ==
  \/ findBlockRefActuals
  \/ findCoforallIndexVars
  \/ closeRef

SpecClosure == InitClosure /\ [][NextClosure]_vars

\* the loop is scheduled until it ends
SpecClosureLive == SpecClosure /\ WF_vars(NextClosure)

(***************************************************************************)
(* Properties of the closure loop.                                         *)
(***************************************************************************)

\* the reference variables the loop has been through
ClosedRefVars ==
  {refVec[i] : i \in 1..(cIdx - 1)} \cap DOMAIN cDefMap

\* the definitions of the variables the loop has been through that are
\* moves of a member access
ClosedMemberDefs ==
  {d \in UNION {Range(cDefMap[r]) : r \in ClosedRefVars} :
     d.parent = "move" /\ d.rhs = "call" /\ d.prim \in MemberPrims}

\* C22 as stated: when a reference variable of the worklist is defined by a
\* move of get_member, get_member_value or get_svec_member(_value) of a base
\* b, b is added to refSet if the result type of the access is a reference,
\* and to varSet otherwise.
C22_AsStated ==
  ~cAborted =>
    \A d \in ClosedMemberDefs :
      IF d.resultRef THEN d.base \in refSet ELSE d.base \in varSet

\* C22: when a reference variable of the worklist is defined by a move of
\* get_member, get_member_value or get_svec_member(_value) of a base b, b is
\* added to refSet if the type of b itself is a reference, and to varSet
\* otherwise, whatever the result type of the access.
C22_BaseByItsOwnType ==
  ~cAborted =>
    \A d \in ClosedMemberDefs :
      IF closureIsRef(d.base)
      THEN d.base \in refSet
      ELSE d.base \in varSet /\ d.base \notin refSet

\* the loop is over; a reference variable was defined by an access that
\* yields a reference into a base that is a value, and the base is in varSet
C22_Witness ==
  /\ cpc = "done"
  /\ \E d \in ClosedMemberDefs :
       /\ d.resultRef
       /\ ~closureIsRef(d.base)
       /\ d.base \in varSet
       /\ d.base \notin cCoforall
  /\ \E d \in ClosedMemberDefs : ~d.resultRef /\ closureIsRef(d.base)

\* a move whose right-hand side is none of addr_of, a member access and a
\* symbol of reference type
Unrecognised(d) ==
  /\ d.parent = "move"
  /\ \/ d.rhs = "call" /\ d.prim \notin MemberPrims \cup {"addr_of"}
     \/ d.rhs = "sym" /\ ~closureIsRef(d.base)
     \/ d.rhs = "other"

\* the loop goes through a reference variable whose definitions are all
\* of that kind
ClosesUnrecognised ==
  /\ cpc = "close"
  /\ cIdx' = cIdx + 1
  /\ refVec[cIdx] \in DOMAIN cDefMap
  /\ cDefMap[refVec[cIdx]] # <<>>
  /\ \A d \in Range(cDefMap[refVec[cIdx]]) : Unrecognised(d)

\* C23 as stated: a definition of a worklist reference variable whose
\* right-hand side matches none of the recognised patterns, a symbol that is
\* not of reference type and a right-hand side that is neither a call nor a
\* symbol included, adds nothing to refSet or varSet and does not abort the
\* compilation.
C23_UnrecognisedIgnored ==
  [][ClosesUnrecognised =>
       /\ refSet' = refSet
       /\ varSet' = varSet
       /\ ~cAborted']_vars

\* what happens instead: the compilation is aborted on a right-hand side
\* that is a symbol of a type that is no reference
C23_AbortsOnValueSymbol ==
  /\ cpc = "aborted"
  /\ \E d \in Range(cDefMap[refVec[cIdx - 1]]) :
       d.rhs = "sym" /\ ~closureIsRef(d.base)

\* a right-hand side that is a call of a function is passed over
C23_CallPassedOver ==
  /\ cpc = "done"
  /\ ~cAborted
  /\ \E r \in ClosedRefVars : \E d \in Range(cDefMap[r]) :
       d.rhs = "call" /\ d.prim = "call"

\* no element of the sequence s occurs in it twice
NoDuplicates(s) == \A i, j \in DOMAIN s : s[i] = s[j] => i = j

endAdvances ==
  \/ epc = "sweep" /\ epc' \in {"thread", "done"} /\ eIdx' = eIdx
  \/ epc = "thread" /\ epc' \in {"thread", "done"} /\ eIdx' = eIdx + 1

\* the pass keeps running until the queue is exhausted: a step of NextEnd
\* is possible exactly when the position can advance, so this is weak
\* fairness of NextEnd, stated on the position
SpecEndLive == SpecEnd /\ WF_<<epc, eIdx>>(endAdvances)

\* the functions that held a get_end_count or a set_end_count
EndPrimFns == {f \in DOMAIN ePrims : ePrims[f].call.op # "other"}

\* the functions of F and their direct and transitive callers
RECURSIVE EndCallers(_)
EndCallers(F) ==
  LET more == F \cup {eCalls[k].caller : k \in {j \in DOMAIN eCalls :
                                                 eCalls[j].callee \in F}}
  IN IF more = F THEN F ELSE EndCallers(more)

\* the number of definitions of an end-count variable at the head of f
EndCountDefs(f) == Len(SelectSeq(eFns[f].head, LAMBDA s : s.op = "def"))

\* each function is given an end-count symbol and is enqueued at most once
EnqueuedOnce ==
  /\ NoDuplicates(eQueue)
  /\ Range(eQueue) = DOMAIN endCountMap
  /\ \A f \in DOMAIN eFns : EndCountDefs(f) <= 1

\* every direct or transitive caller of a function that held a primitive
\* has an end-count symbol
CallersThreaded == \A f \in EndCallers(EndPrimFns) : Has(endCountMap, f)

ArityMatches(k) ==
  Len(eCalls[k].actuals) = Len(eFns[eCalls[k].callee].formals)

\* C29: end-count threading preserves call arity: every resolved call has
\* as many actuals as its callee has formals before insertEndCounts, and
\* so it has afterwards, the calls of chpl_gen_main included.
C29_ArityPreserved ==
  epc \in {"sweep", "done"} => \A k \in DOMAIN eCalls : ArityMatches(k)

\* what happens instead: a call of chpl_gen_main is given the end-count
\* symbol of its caller, and chpl_gen_main no formal
C29_MainCallOneActualMore ==
  /\ epc = "done"
  /\ \E k \in DOMAIN eCalls :
       /\ eCalls[k].callee = chpl_gen_main
       /\ Len(eCalls[k].actuals) = 1
       /\ eFns[chpl_gen_main].formals = <<>>

\* the calls of every other function keep their arity
C29_OtherCallsKeepArity ==
  epc = "done" =>
    \A k \in DOMAIN eCalls :
      eCalls[k].callee # chpl_gen_main => ArityMatches(k)

(***************************************************************************)
(* Further properties of handleLocalBlocks.                                *)
(***************************************************************************)

\* what every step of handleLocalBlocks does to its position: the local
\* blocks are queued, or the loop moves on in the queue
localAdvances ==
  \/ lpc = "start" /\ lpc' \in {"run", "done"} /\ lIdx' = lIdx
  \/ lpc = "run" /\ lpc' \in {"run", "done"} /\ lIdx' = lIdx + 1

\* the pass keeps running until the queue is exhausted: weak fairness of
\* NextLocal, stated on the position
SpecLocalLive == SpecLocal /\ WF_<<lpc, lIdx>>(localAdvances)

\* the functions that are copies made by handleLocalBlocks
LocalCopies == {f \in DOMAIN lFns : lFns[f].name.prefix > 0}

\* C26: handleLocalBlocks terminates, directly and mutually recursive
\* callees included; it makes at most one '_local_' clone per original
\* function, however many call sites reached from local blocks call it, and
\* a clone is never cloned itself.
C26_LocalBlocksTerminate ==
  /\ [](/\ \A c \in LocalCopies : lFns[c].name.prefix = 1
        /\ \A c1, c2 \in LocalCopies :
             lFns[c1].name.base = lFns[c2].name.base => c1 = c2)
  /\ <>(lpc = "done")

\* the pass has ended; the local block called a function twice, the clone
\* of a function calls itself, and two clones call each other
C26_Witness ==
  /\ lpc = "done"
  /\ \E i, j \in DOMAIN lBlocks[1].body :
       i # j /\ lBlocks[1].body[i] = lBlocks[1].body[j]
  /\ \/ \E c \in LocalCopies : FnCall(c) \in Range(lFns[c].body)
     \/ \E c, g \in LocalCopies :
          /\ c # g
          /\ FnCall(g) \in Range(lFns[c].body)
          /\ FnCall(c) \in Range(lFns[g].body)

-----------------------------------------------------------------------------
\* Promotion of a formal

\* the formal has been reached by the loop
FormalReached ==
  /\ hInfo[V].kind = "formal"
  /\ \E i \in DOMAIN varVec : i < varIdx /\ varVec[i] = V

\* the temporary the loop made for the formal
FormalTemp == CHOOSE y \in Range(varVec) : y \notin {V, W}

\* the temporary has been reached by the loop
FormalTempReached ==
  \E i \in DOMAIN varVec : i < varIdx /\ varVec[i] = FormalTemp

\* the statements that store the value of the formal in the heap cell of t:
\* a move of the formal into a temporary followed by the set_member
FormalStores(t) ==
  {k \in DOMAIN hIR :
     /\ k > 1
     /\ hIR[k].op = "set_member"
     /\ hIR[k].args[1].sym = t
     /\ hIR[k].args[2] = FieldE("value")
     /\ hIR[k - 1].op = "move"
     /\ hIR[k - 1].args[1].sym = hIR[k].args[3].sym
     /\ hIR[k - 1].args[2] = SymE(V, 0)}

\* C27: once the loop has reached a formal v, v keeps its type, a temporary
\* t is declared first in the function and the only occurrence left of v is
\* the source of the move that copies it; before the loop reaches t, t has
\* the type of v and that move is the second statement, into t; once the
\* loop has promoted t, t has the heap type, its heap cell is allocated
\* right after its declaration, and the value of v is stored in the field
\* value of t after the allocation.
C27_FormalThroughTemp ==
  (FormalReached /\ ~hAborted) =>
    LET t == FormalTemp
    IN /\ hType[V] = ValT
       /\ hInfo[t].kind = "local"
       /\ hIR[1] = DefE(t)
       /\ \A e \in Occurrences(V) :
            e.parent.op = "move" /\ e.pos = 2 /\ e.node.id = 0
       /\ Cardinality(Occurrences(V)) = 1
       /\ IF FormalTempReached
          THEN /\ hType[t] = buildHeapType(ValT)
               /\ Allocations(t) = {2}
               /\ \E k \in FormalStores(t) : k > 2
               /\ \A e \in Occurrences(t) :
                    \/ IsSetMemberValue(e) \/ IsGetMemberValue(e)
                    \/ IsHeapFormalActual(e) \/ IsAllocation(e)
          ELSE /\ hType[t] = ValT
               /\ hIR[2] = Prim("move", <<SymE(t, FirstDefId(t.a)), SymE(V, 0)>>)

\* a formal that had a def and a use, after the loop has promoted its
\* temporary
C27_Witness ==
  /\ FormalReached
  /\ hpc = "done"
  /\ ~hAborted
  /\ FormalTempReached
  /\ Len(defMap[V]) > 0
  /\ Len(useMap[V]) > 0
  /\ hType[FormalTemp] = buildHeapType(ValT)
  /\ FormalStores(FormalTemp) # {}

-----------------------------------------------------------------------------
\* Writes of a promoted variable

\* statement k writes its first operand: a call whose formal has the intent
\* ref or out, or an assign
WritesFirstOperand(k) ==
  \/ hIR[k].op = "call" /\ FnIntent(hIR[k].fn) \in {"ref", "out"}
  \/ hIR[k].op = "assign"

\* statement k loads the value of the heap cell of y into a temporary
LoadsValueOf(k, y) ==
  /\ hIR[k].op = "move"
  /\ hIR[k].args[1].sym.k = "tmp"
  /\ hIR[k].args[2] = Prim("get_member_value", <<SymE(y, 0), FieldE("value")>>)

\* statement k stores the symbol t in the heap cell of y
StoresIn(k, y, t) ==
  /\ k \in DOMAIN hIR
  /\ hIR[k] = Prim("set_member", <<SymE(y, 0), FieldE("value"), SymE(t, 0)>>)

\* the statements that took the place of a def of y by a call or an assign:
\* they write the temporary that the statement before them loaded from the
\* heap cell of y
WritesOfCopy(y) ==
  {k \in DOMAIN hIR :
     /\ k > 1
     /\ WritesFirstOperand(k)
     /\ LoadsValueOf(k - 1, y)
     /\ hIR[k].args[1].sym = hIR[k - 1].args[1].sym}

\* C30 as stated: when the loop is done, every statement that wrote a
\* promoted variable is followed by the store of the written value in the
\* field value of the heap cell; for a def by a call or an assign that is
\* the store of the temporary the statement writes.
C30_NoWriteLost ==
  (hpc = "done" /\ ~hAborted) =>
    \A y \in Promoted :
      \A k \in WritesOfCopy(y) : StoresIn(k + 1, y, hIR[k].args[1].sym)

\* a call that received a promoted variable for a formal with the intent
\* out now writes a copy of the heap cell's value, and no statement stores
\* the copy in the heap cell
C30_WriteOfCopyLost ==
  /\ hpc = "done"
  /\ ~hAborted
  /\ \E y \in Promoted :
       \E k \in WritesOfCopy(y) :
         /\ hIR[k].op = "call"
         /\ FnIntent(hIR[k].fn) = "out"
         /\ \A j \in DOMAIN hIR : ~StoresIn(j, y, hIR[k].args[1].sym)

\* every store in the field value of a promoted variable's heap cell stores
\* the temporary that the statement before it has moved the written value
\* into: the writes by move are kept
C30_MoveWritesStored ==
  ~hAborted =>
    \A y \in Promoted :
      \A k \in DOMAIN hIR :
        (/\ hIR[k].op = "set_member"
         /\ hIR[k].args[1].sym = y
         /\ hIR[k].args[2] = FieldE("value"))
        => /\ k > 1
           /\ hIR[k - 1].op = "move"
           /\ hIR[k - 1].args[1].sym = hIR[k].args[3].sym

-----------------------------------------------------------------------------
\* The tracking loop of freeHeapAllocatedVars on moves between references

\* the largest number of statements that use V or a reference it flows to
MaxMoves == 3

\* statements of the function body: a reference to the heap cell of V is
\* taken, references are moved into one another, one is passed to f_task
TrackStmtChoices ==
  {FStmt("get_member", FnBody, V, R1, ""),
   FStmt("get_member_value", FnBody, V, NoSym, ""),
   FStmt("move", FnBody, R1, R2, ""),
   FStmt("move", FnBody, R2, R1, ""),
   FStmt("call", FnBody, R2, NoSym, "f_task")}

RECURSIVE TrackBodies(_)
TrackBodies(n) ==
  IF n = 0 THEN {<<>>}
  ELSE {Append(b, s) : b \in TrackBodies(n - 1), s \in TrackStmtChoices}

TrackInit ==
  /\ \E n \in 0..MaxMoves :
       \E body \in TrackBodies(n) : fIR = <<AllocStmt>> \o body
  /\ taskFlags \in TaskFlagChoices
  /\ fnsContainingTaskll = <<>>
  /\ varsToTrack = <<>>
  /\ trackIdx = 1
  /\ freeVar = TRUE
  /\ frees = <<>>
  /\ fpc = "collect"

InitTrack == TrackInit /\ BundleIdle /\ HeapIdle /\ RestIdle

SpecTrack == InitTrack /\ [][NextFree]_vars

\* the position of freeHeapAllocatedVars moves on: the loop visits the next
\* variable of varsToTrack or is left
freeAdvances ==
  \/ fpc = "collect" /\ fpc' \in {"track", "done"} /\ trackIdx' = trackIdx
  \/ /\ fpc = "track"
     /\ trackIdx <= Len(varsToTrack)
     /\ Len(varsToTrack) <= MaxTrack
     /\ \/ fpc' \in {"track", "place"} /\ trackIdx' = trackIdx + 1
        \/ fpc' = "done" /\ trackIdx' = trackIdx
  \/ fpc = "place" /\ fpc' \in {"done", "aborted"} /\ trackIdx' = trackIdx

\* the pass goes on while it has a step to take: a step of NextFree is
\* possible exactly when the position can advance, so this is weak fairness
\* of NextFree, stated on the position
SpecTrackLive == SpecTrack /\ WF_<<fpc, trackIdx>>(freeAdvances)

\* C28 as stated: varsToTrack never holds a variable twice, and the
\* tracking loop ends, whatever moves the function makes between the
\* variables it tracks.
C28_TrackingTerminates ==
  /\ [](NoDuplicates(varsToTrack))
  /\ <>(fpc \in {"place", "done", "aborted"})

\* a variable is in varsToTrack twice
C28_TrackedTwice ==
  \E i, j \in DOMAIN varsToTrack : i < j /\ varsToTrack[i] = varsToTrack[j]

\* the function moves R1 into R2 and R2 into R1, and R1 is tracked
MovesCycle ==
  /\ FStmt("move", FnBody, R1, R2, "") \in Range(fIR)
  /\ FStmt("move", FnBody, R2, R1, "") \in Range(fIR)
  /\ FStmt("get_member", FnBody, V, R1, "") \in Range(fIR)

\* on a cycle of moves the loop has variables left to visit however long
\* the list has grown
C28_CycleKeepsGrowing ==
  /\ MovesCycle
  /\ fpc = "track"
  /\ Len(varsToTrack) > MaxTrack
  /\ trackIdx <= Len(varsToTrack)

\* while the loop runs on a cycle of moves in a function that passes no
\* reference to a call, every visit leaves a variable to visit: the loop
\* cannot end
C28_CycleNeverEnds ==
  [][(/\ MovesCycle
      /\ \A k \in DOMAIN fIR : fIR[k].form # "call"
      /\ fpc = "track") => fpc' = "track"]_vars

\* when no statement moves R2 back into R1, the loop ends
C28_EndsWithoutCycle ==
  \/ FStmt("move", FnBody, R2, R1, "") \in Range(fIR)
  \/ <>(fpc \in {"place", "done", "aborted"})

=============================================================================
